---- MODULE Spec2Model ----
(***************************************************************************)
(* A model of the manuscript worker's core: the block extractor            *)
(* (lib/block_extractor.py), the canonical hasher (lib/artifact_hash.py),  *)
(* the lineage tracker (lib/artifact_lineage.py), the warning detector     *)
(* (lib/warning_detector.py), the artifact builder                         *)
(* (lib/artifact_builder.py) and the run of the worker around them         *)
(* (pronto_worker_1.py).                                                   *)
(*                                                                         *)
(* Text is modelled character by character: a string is a sequence of      *)
(* one-character strings, so that strip(), lower(), the regular            *)
(* expressions and the substring tests are computed as the code computes   *)
(* them.                                                                   *)
(***************************************************************************)
EXTENDS Integers, Sequences, FiniteSets, TLC

VARIABLES
    pc,               \* where the extractor is: idle, txt, pdf, docx, done, error
    block_counter,    \* BlockExtractor.block_counter
    in_front_matter,  \* local of _extract_*
    in_back_matter,   \* local of _extract_*
    chapter_count,    \* local of _extract_*
    blocks,           \* local of _extract_*: the list of blocks built so far
    units_read,       \* how many lines / paragraphs the loop has consumed
    page_num,         \* _extract_pdf: the page being read
    cur,              \* the loop variable: the line or paragraph last read
    source_meta,      \* the second component of extract's result
    hash_in,          \* canonical hasher: the artifact given
    hash_alt,         \* canonical hasher: a second artifact, related to hash_in
    hash_rel,         \* how hash_alt was obtained from hash_in
    hash_out,         \* canonical hasher: the results of compute_artifact_hash
    verify_out,       \* canonical hasher: the call of verify_artifact_hash made
    lineage_artifact, \* lineage tracker: the artifact given
    lineage_parents,  \* lineage tracker: parent_artifacts_from_r2
    lineage_out,      \* lineage tracker: the call made and its result
    detect_blocks,    \* warning detector: the blocks given to detect
    detect_out,       \* warning detector: the warnings detect returned
    build_in,         \* artifact builder: the arguments of build
    build_out,        \* artifact builder: the artifact build returned
    services_table,   \* worker: the Services record, its Status and last writer
    manuscript_url,   \* worker: the attachment URL of the linked Manuscripts record
    r2_bucket,        \* worker: the object stored under the artifact key
    worker_runs       \* worker: the runs of process_service, position and locals

extractor_vars == <<pc, block_counter, in_front_matter, in_back_matter,
                    chapter_count, blocks, units_read, page_num, cur, source_meta>>
hash_vars == <<hash_in, hash_alt, hash_rel, hash_out>>
verify_vars == <<verify_out>>
lineage_vars == <<lineage_artifact, lineage_parents, lineage_out>>
detect_vars == <<detect_blocks, detect_out>>
build_vars == <<build_in, build_out>>
worker_vars == <<services_table, manuscript_url, r2_bucket, worker_runs>>
\* What a call of one component leaves alone: the variables of the others.
not_extractor_vars == <<hash_vars, verify_vars, lineage_vars, detect_vars, build_vars, worker_vars>>
not_hash_vars == <<extractor_vars, verify_vars, lineage_vars, detect_vars, build_vars, worker_vars>>
vars == <<pc, block_counter, in_front_matter, in_back_matter, chapter_count,
          blocks, units_read, page_num, cur, source_meta,
          hash_in, hash_alt, hash_rel, hash_out, verify_out,
          lineage_artifact, lineage_parents, lineage_out,
          detect_blocks, detect_out, build_in, build_out,
          services_table, manuscript_url, r2_bucket, worker_runs>>

(***************************************************************************)
(* Bounds of the model.                                                    *)
(***************************************************************************)
\* The longest document: lines or paragraphs read in one extract call.
MaxUnits == 3
\* The most pages of a PDF document.
MaxPages == 2

(***************************************************************************)
(* Characters and strings.                                                 *)
(***************************************************************************)
\* str.isspace() on the characters of the model's alphabet.
IsSpace(c) == c \in {" ", "\t", "\n"}

DigitChars == <<"0", "1", "2", "3", "4", "5", "6", "7", "8", "9">>

\* The regular expression class \d.
IsDigit(c) == \E i \in 1..10 : DigitChars[i] = c

DigitVal(c) == (CHOOSE i \in 1..10 : DigitChars[i] = c) - 1

UpperChars == <<"A", "B", "C", "D", "E", "F", "G", "H", "I", "J", "K", "L", "M",
                "N", "O", "P", "Q", "R", "S", "T", "U", "V", "W", "X", "Y", "Z">>
LowerChars == <<"a", "b", "c", "d", "e", "f", "g", "h", "i", "j", "k", "l", "m",
                "n", "o", "p", "q", "r", "s", "t", "u", "v", "w", "x", "y", "z">>

\* str.lower() on one character.
LowerChar(c) ==
    IF \E i \in 1..26 : UpperChars[i] = c
    THEN LowerChars[CHOOSE i \in 1..26 : UpperChars[i] = c]
    ELSE c

\* str.lower()
LowerStr(s) == [i \in 1..Len(s) |-> LowerChar(s[i])]

\* A faulty variant of Strip: the text is left as it was read.
Strip_Identity(s) == s

\* str.strip(): leading and trailing whitespace removed.
Strip(s) ==
    LET solid == {i \in 1..Len(s) : ~IsSpace(s[i])}
    IN  IF solid = {} THEN <<>>
        ELSE LET first == CHOOSE i \in solid : \A j \in solid : i <= j
                 last  == CHOOSE i \in solid : \A j \in solid : j <= i
             IN  SubSeq(s, first, last)

\* The Python test `needle in hay` on strings.
Contains(hay, needle) ==
    \E i \in 1..(Len(hay) - Len(needle) + 1) :
        SubSeq(hay, i, i + Len(needle) - 1) = needle

RECURSIVE DecimalValue(_)
\* int() of a string of decimal digits.
DecimalValue(ds) ==
    IF ds = <<>> THEN 0
    ELSE 10 * DecimalValue(SubSeq(ds, 1, Len(ds) - 1)) + DigitVal(ds[Len(ds)])

\* re.search(r'\d+', text): the first maximal run of digits, as <<from, to>>,
\* or <<0, 0>> when the text holds no digit (the search returns None).
SearchDigits(text) ==
    LET ds == {i \in 1..Len(text) : IsDigit(text[i])}
    IN  IF ds = {} THEN <<0, 0>>
        ELSE LET from == CHOOSE i \in ds : \A j \in ds : i <= j
                 to   == CHOOSE j \in from..Len(text) :
                            /\ \A k \in from..j : IsDigit(text[k])
                            /\ (j = Len(text) \/ ~IsDigit(text[j + 1]))
             IN  <<from, to>>

(***************************************************************************)
(* The class constants of BlockExtractor.                                  *)
(***************************************************************************)
\* Each chapter pattern is ^ followed by either a word, \s+ and \d+
\* (kind "word"), or \d+ and a literal dot (kind "ordinal").
CHAPTER_PATTERNS == <<
    [kind |-> "word", word |-> <<"C", "h", "a", "p", "t", "e", "r">>],
    [kind |-> "word", word |-> <<"C", "H", "A", "P", "T", "E", "R">>],
    [kind |-> "word", word |-> <<"C", "h", ".">>],
    [kind |-> "ordinal", word |-> <<>>],
    [kind |-> "word", word |-> <<"P", "a", "r", "t">>],
    [kind |-> "word", word |-> <<"P", "A", "R", "T">>] >>

\* A dict: Python iterates it in insertion order.
FRONT_MATTER_KEYWORDS == <<
    [keyword |-> <<"d", "e", "d", "i", "c", "a", "t", "i", "o", "n">>,
     block_type |-> "front_matter_dedication"],
    [keyword |-> <<"c", "o", "p", "y", "r", "i", "g", "h", "t">>,
     block_type |-> "front_matter_copyright"],
    [keyword |-> <<"t", "i", "t", "l", "e">>,
     block_type |-> "front_matter_title"],
    [keyword |-> <<"c", "o", "n", "t", "e", "n", "t", "s">>,
     block_type |-> "toc_marker"],
    [keyword |-> <<"t", "a", "b", "l", "e", " ", "o", "f", " ",
                   "c", "o", "n", "t", "e", "n", "t", "s">>,
     block_type |-> "toc_marker"] >>

BACK_MATTER_KEYWORDS == <<
    [keyword |-> <<"a", "b", "o", "u", "t", " ", "t", "h", "e", " ",
                   "a", "u", "t", "h", "o", "r">>,
     block_type |-> "back_matter_about_author"],
    [keyword |-> <<"a", "b", "o", "u", "t", " ", "a", "u", "t", "h", "o", "r">>,
     block_type |-> "back_matter_about_author"],
    [keyword |-> <<"a", "l", "s", "o", " ", "b", "y">>,
     block_type |-> "back_matter_also_by"] >>

\* Each scene break pattern is ^\s* ... \s*$ around either literal characters
\* separated by \s* (kind "spaced") or a run of at least `min` copies of one
\* character (kind "run").
SCENE_BREAK_PATTERNS == <<
    [kind |-> "spaced", chars |-> <<"*", "*", "*">>, min |-> 0],
    [kind |-> "spaced", chars |-> <<"#">>, min |-> 0],
    [kind |-> "spaced", chars |-> <<"~">>, min |-> 0],
    [kind |-> "run", chars |-> <<"-">>, min |-> 3] >>

(***************************************************************************)
(* The regular expression matches of _detect_block_type.                   *)
(***************************************************************************)
\* The text with every whitespace character removed.
RECURSIVE WithoutSpace(_)
WithoutSpace(s) ==
    IF s = <<>> THEN <<>>
    ELSE IF IsSpace(s[1]) THEN WithoutSpace(Tail(s))
         ELSE <<s[1]>> \o WithoutSpace(Tail(s))

\* re.match(pattern, text) for a scene break pattern.
MatchSceneBreak(p, text) ==
    IF p.kind = "spaced"
    THEN WithoutSpace(text) = p.chars
    ELSE \E a \in 0..Len(text) : \E b \in a..Len(text) :
            /\ b - a >= p.min
            /\ \A i \in 1..a : IsSpace(text[i])
            /\ \A i \in (a + 1)..b : text[i] = p.chars[1]
            /\ \A i \in (b + 1)..Len(text) : IsSpace(text[i])

\* re.match(pattern, text, re.IGNORECASE) for a chapter pattern.
MatchChapter(p, text) ==
    IF p.kind = "word"
    THEN LET n == Len(p.word)
         IN  /\ Len(text) >= n + 2
             /\ LowerStr(SubSeq(text, 1, n)) = LowerStr(p.word)
             /\ \E j \in (n + 1)..(Len(text) - 1) :
                    /\ \A i \in (n + 1)..j : IsSpace(text[i])
                    /\ IsDigit(text[j + 1])
    ELSE \E j \in 1..(Len(text) - 1) :
            /\ \A i \in 1..j : IsDigit(text[i])
            /\ text[j + 1] = "."

\* The first index among those that pass a test (the loop
\* `for x in xs: if test(x): return ...`), or 0 when the loop falls through.
FirstOf(S) == IF S = {} THEN 0 ELSE CHOOSE i \in S : \A j \in S : i <= j

\* The last position of a set of positions (Path(url).suffix: the last
\* slash and the last dot), or 0 when there is none.
LastOf(S) == IF S = {} THEN 0 ELSE CHOOSE i \in S : \A j \in S : i >= j

\* The empty dict.
EmptyDict == <<>>

\* A faulty variant of DetectBlockType: the keyword tables are consulted before the
\* chapter patterns.
DetectBlockType_KeywordFirst(text, style, in_front, in_back) ==
    LET text_lower == LowerStr(text)
        sb == FirstOf({i \in 1..Len(SCENE_BREAK_PATTERNS) :
                          MatchSceneBreak(SCENE_BREAK_PATTERNS[i], text)})
        ch == FirstOf({i \in 1..Len(CHAPTER_PATTERNS) :
                          MatchChapter(CHAPTER_PATTERNS[i], text)})
        fk == FirstOf({i \in 1..Len(FRONT_MATTER_KEYWORDS) :
                          Contains(text_lower, FRONT_MATTER_KEYWORDS[i].keyword)})
        bk == FirstOf({i \in 1..Len(BACK_MATTER_KEYWORDS) :
                          Contains(text_lower, BACK_MATTER_KEYWORDS[i].keyword)})
        num == SearchDigits(text)
    IN  IF sb # 0 THEN [type |-> "scene_break", meta |-> [pattern |-> text]]
        ELSE IF fk # 0
        THEN [type |-> FRONT_MATTER_KEYWORDS[fk].block_type,
              meta |-> [detected_keyword |-> FRONT_MATTER_KEYWORDS[fk].keyword]]
        ELSE IF bk # 0
        THEN [type |-> BACK_MATTER_KEYWORDS[bk].block_type,
              meta |-> [detected_keyword |-> BACK_MATTER_KEYWORDS[bk].keyword]]
        ELSE IF ch # 0
        THEN [type |-> "chapter_heading",
              meta |-> IF num[1] # 0
                       THEN [chapter_number |->
                                DecimalValue(SubSeq(text, num[1], num[2]))]
                       ELSE EmptyDict]
        ELSE IF in_front THEN [type |-> "front_matter_dedication", meta |-> EmptyDict]
        ELSE IF in_back THEN [type |-> "back_matter_about_author", meta |-> EmptyDict]
        ELSE [type |-> "paragraph", meta |-> EmptyDict]

\* A faulty variant of DetectBlockType: the back matter keywords are consulted
\* before the front matter keywords.
DetectBlockType_BackFirst(text, style, in_front, in_back) ==
    LET text_lower == LowerStr(text)
        sb == FirstOf({i \in 1..Len(SCENE_BREAK_PATTERNS) :
                          MatchSceneBreak(SCENE_BREAK_PATTERNS[i], text)})
        ch == FirstOf({i \in 1..Len(CHAPTER_PATTERNS) :
                          MatchChapter(CHAPTER_PATTERNS[i], text)})
        fk == FirstOf({i \in 1..Len(FRONT_MATTER_KEYWORDS) :
                          Contains(text_lower, FRONT_MATTER_KEYWORDS[i].keyword)})
        bk == FirstOf({i \in 1..Len(BACK_MATTER_KEYWORDS) :
                          Contains(text_lower, BACK_MATTER_KEYWORDS[i].keyword)})
        num == SearchDigits(text)
    IN  IF sb # 0 THEN [type |-> "scene_break", meta |-> [pattern |-> text]]
        ELSE IF ch # 0
        THEN [type |-> "chapter_heading",
              meta |-> IF num[1] # 0
                       THEN [chapter_number |->
                                DecimalValue(SubSeq(text, num[1], num[2]))]
                       ELSE EmptyDict]
        ELSE IF bk # 0
        THEN [type |-> BACK_MATTER_KEYWORDS[bk].block_type,
              meta |-> [detected_keyword |-> BACK_MATTER_KEYWORDS[bk].keyword]]
        ELSE IF fk # 0
        THEN [type |-> FRONT_MATTER_KEYWORDS[fk].block_type,
              meta |-> [detected_keyword |-> FRONT_MATTER_KEYWORDS[fk].keyword]]
        ELSE IF in_front THEN [type |-> "front_matter_dedication", meta |-> EmptyDict]
        ELSE IF in_back THEN [type |-> "back_matter_about_author", meta |-> EmptyDict]
        ELSE [type |-> "paragraph", meta |-> EmptyDict]

\* _detect_block_type: the block type and the meta dict of one unit of text.
\* The style argument is accepted and never read.
DetectBlockType(text, style, in_front, in_back) ==
    LET text_lower == LowerStr(text)
        sb == FirstOf({i \in 1..Len(SCENE_BREAK_PATTERNS) :
                          MatchSceneBreak(SCENE_BREAK_PATTERNS[i], text)})
        ch == FirstOf({i \in 1..Len(CHAPTER_PATTERNS) :
                          MatchChapter(CHAPTER_PATTERNS[i], text)})
        fk == FirstOf({i \in 1..Len(FRONT_MATTER_KEYWORDS) :
                          Contains(text_lower, FRONT_MATTER_KEYWORDS[i].keyword)})
        bk == FirstOf({i \in 1..Len(BACK_MATTER_KEYWORDS) :
                          Contains(text_lower, BACK_MATTER_KEYWORDS[i].keyword)})
        num == SearchDigits(text)
    IN  IF sb # 0 THEN [type |-> "scene_break", meta |-> [pattern |-> text]]
        ELSE IF ch # 0
        THEN [type |-> "chapter_heading",
              meta |-> IF num[1] # 0
                       THEN [chapter_number |->
                                DecimalValue(SubSeq(text, num[1], num[2]))]
                       ELSE EmptyDict]
        ELSE IF fk # 0
        THEN [type |-> FRONT_MATTER_KEYWORDS[fk].block_type,
              meta |-> [detected_keyword |-> FRONT_MATTER_KEYWORDS[fk].keyword]]
        ELSE IF bk # 0
        THEN [type |-> BACK_MATTER_KEYWORDS[bk].block_type,
              meta |-> [detected_keyword |-> BACK_MATTER_KEYWORDS[bk].keyword]]
        ELSE IF in_front THEN [type |-> "front_matter_dedication", meta |-> EmptyDict]
        ELSE IF in_back THEN [type |-> "back_matter_about_author", meta |-> EmptyDict]
        ELSE [type |-> "paragraph", meta |-> EmptyDict]

\* block_type.startswith('front_matter'), over the types the extractor emits.
StartsWithFrontMatter(block_type) ==
    block_type \in {"front_matter_dedication", "front_matter_copyright",
                    "front_matter_title"}

\* block_type.startswith('back_matter'), over the types the extractor emits.
StartsWithBackMatter(block_type) ==
    block_type \in {"back_matter_about_author", "back_matter_also_by"}

\* A faulty variant of UpdateState: the chapter number found in the text is kept.
UpdateState_KeepNumber(block_type, meta, in_front, in_back, count) ==
    LET c1 == IF block_type = "chapter_heading" THEN count + 1 ELSE count
        f1 == IF block_type = "chapter_heading" THEN FALSE ELSE in_front
        m1 == IF block_type = "chapter_heading" /\ DOMAIN meta = {}
              THEN [chapter_number |-> c1] ELSE meta
        f2 == IF StartsWithFrontMatter(block_type) \/ block_type = "toc_marker"
              THEN TRUE ELSE f1
        b3 == IF StartsWithBackMatter(block_type) THEN TRUE ELSE in_back
        f3 == IF StartsWithBackMatter(block_type) THEN FALSE ELSE f2
    IN  [in_front_matter |-> f3, in_back_matter |-> b3,
         chapter_count |-> c1, meta |-> m1]

\* A faulty variant of UpdateState: a scene break ends the front matter.
UpdateState_SceneBreakEndsFront(block_type, meta, in_front, in_back, count) ==
    LET c1 == IF block_type = "chapter_heading" THEN count + 1 ELSE count
        f1 == IF block_type \in {"chapter_heading", "scene_break"}
              THEN FALSE ELSE in_front
        m1 == IF block_type = "chapter_heading"
              THEN [chapter_number |-> c1] ELSE meta
        f2 == IF StartsWithFrontMatter(block_type) \/ block_type = "toc_marker"
              THEN TRUE ELSE f1
        b3 == IF StartsWithBackMatter(block_type) THEN TRUE ELSE in_back
        f3 == IF StartsWithBackMatter(block_type) THEN FALSE ELSE f2
    IN  [in_front_matter |-> f3, in_back_matter |-> b3,
         chapter_count |-> c1, meta |-> m1]

\* The "Update state" statements of the three extract loops: the three ifs,
\* in order, on the type _detect_block_type returned.
UpdateState(block_type, meta, in_front, in_back, count) ==
    LET c1 == IF block_type = "chapter_heading" THEN count + 1 ELSE count
        f1 == IF block_type = "chapter_heading" THEN FALSE ELSE in_front
        m1 == IF block_type = "chapter_heading"
              THEN [chapter_number |-> c1] ELSE meta
        f2 == IF StartsWithFrontMatter(block_type) \/ block_type = "toc_marker"
              THEN TRUE ELSE f1
        b3 == IF StartsWithBackMatter(block_type) THEN TRUE ELSE in_back
        f3 == IF StartsWithBackMatter(block_type) THEN FALSE ELSE f2
    IN  [in_front_matter |-> f3, in_back_matter |-> b3,
         chapter_count |-> c1, meta |-> m1]

RECURSIVE DecimalDigits(_)
\* The decimal digits of a natural number.
DecimalDigits(n) ==
    IF n < 10 THEN <<DigitChars[n + 1]>>
    ELSE DecimalDigits(n \div 10) \o <<DigitChars[(n % 10) + 1]>>

\* The width of the ordinal in a block id.
IdWidth == 6

\* f"b_{n:06d}"
FormatBlockId(n) ==
    LET ds == DecimalDigits(n)
        pad == IF Len(ds) < IdWidth THEN [i \in 1..(IdWidth - Len(ds)) |-> "0"]
               ELSE <<>>
    IN  <<"b", "_">> \o pad \o ds

\* `if meta: block['meta'] = meta`
WithMeta(block, meta) ==
    IF DOMAIN meta # {} THEN block @@ [meta |-> meta] ELSE block

\* The block built from a line of a plain text file.
TxtBlock(n, block_type, text, meta) ==
    WithMeta([id |-> FormatBlockId(n), type |-> block_type, text |-> text], meta)

\* The block built from a line of a PDF page.
PdfBlock(n, block_type, text, meta, page) ==
    WithMeta([id |-> FormatBlockId(n), type |-> block_type, text |-> text], meta)
        @@ [source_loc |-> [doc_page_number |-> page]]

(***************************************************************************)
(* Word-processor paragraphs: a paragraph is its sequence of style runs.   *)
(***************************************************************************)
\* A style run of a paragraph. font_name is <<>> when the run names no font.
Run(text, italic, bold, small_caps, font_name) ==
    [text |-> text, italic |-> italic, bold |-> bold,
     small_caps |-> small_caps, font_name |-> font_name]

RECURSIVE ParaText(_)
\* para.text: the texts of the paragraph's runs, concatenated.
ParaText(runs) ==
    IF runs = <<>> THEN <<>> ELSE runs[1].text \o ParaText(Tail(runs))

\* The marks of one run, in the order the code appends them.
RunMarks(run) ==
    (IF run.italic THEN <<"italic">> ELSE <<>>)
    \o (IF run.bold THEN <<"bold">> ELSE <<>>)
    \o (IF run.small_caps THEN <<"smallcaps">> ELSE <<>>)
    \o (IF run.font_name # <<>>
           /\ Contains(LowerStr(run.font_name), <<"m", "o", "n", "o">>)
        THEN <<"code">> ELSE <<>>)

RECURSIVE ExtractSpansFromPara(_)
\* _extract_spans_from_para: one span per run with text, runs of no text
\* skipped.
ExtractSpansFromPara(runs) ==
    IF runs = <<>> THEN <<>>
    ELSE IF runs[1].text = <<>> THEN ExtractSpansFromPara(Tail(runs))
    ELSE <<[text |-> runs[1].text, marks |-> RunMarks(runs[1])]>>
         \o ExtractSpansFromPara(Tail(runs))

\* A faulty variant of DocxBlock: the text is stored beside the spans.
DocxBlock_TextToo(n, block_type, text, spans, meta, para_idx) ==
    LET content == IF Len(spans) > 1 THEN [spans |-> spans, text |-> text]
                   ELSE IF Len(spans) = 1 /\ spans[1].marks # <<>>
                   THEN [spans |-> spans, text |-> text]
                   ELSE [text |-> text]
    IN  WithMeta([id |-> FormatBlockId(n), type |-> block_type] @@ content, meta)
            @@ [source_loc |-> [doc_paragraph_index |-> para_idx]]

\* The block built from a paragraph of a word-processor document: spans when
\* there are several or the only one is marked, the text otherwise.
DocxBlock(n, block_type, text, spans, meta, para_idx) ==
    LET content == IF Len(spans) > 1 THEN [spans |-> spans]
                   ELSE IF Len(spans) = 1 /\ spans[1].marks # <<>>
                   THEN [spans |-> spans]
                   ELSE [text |-> text]
    IN  WithMeta([id |-> FormatBlockId(n), type |-> block_type] @@ content, meta)
            @@ [source_loc |-> [doc_paragraph_index |-> para_idx]]

(***************************************************************************)
(* The inputs: file extensions, lines as readlines() and split('\n') give  *)
(* them, and paragraphs.                                                   *)
(***************************************************************************)
Extensions == {
    <<".", "d", "o", "c", "x">>,
    <<".", "D", "O", "C", "X">>,
    <<".", "p", "d", "f">>,
    <<".", "t", "x", "t">>,
    <<".", "m", "d">>,
    <<".", "r", "t", "f">>,
    <<>> }

Lines == {
    <<"*", " ", "*", " ", "*", "\n">>,
    <<"C", "h", "a", "p", "t", "e", "r", " ", "5">>,
    <<"3", ".", " ", "T", "i", "t", "l", "e">>,
    <<"C", "o", "p", "y", "r", "i", "g", "h", "t", " ",
      "D", "e", "d", "i", "c", "a", "t", "i", "o", "n">>,
    <<"A", "b", "o", "u", "t", " ", "t", "h", "e", " ", "A", "u", "t", "h", "o", "r">>,
    <<"T", "i", "t", "l", "e", ":", " ", "A", "l", "s", "o", " ", "B", "y">>,
    <<" ", " ", "H", "i", "\n">>,
    <<" ", "\t", "\n">> }

PdfLines == {
    <<"-", "-", "-">>,
    <<"P", "A", "R", "T", " ", "1">>,
    <<"a", "l", "s", "o", " ", "b", "y">>,
    <<"H", "e", "l", "l", "o", ".">>,
    <<>> }

Plain(text) == Run(text, FALSE, FALSE, FALSE, <<>>)

Paragraphs == {
    <<Plain(<<"H", "e", "l", "l", "o", ".">>)>>,
    <<Plain(<<"C", "h", ".", " ">>),
      Run(<<"7">>, FALSE, TRUE, FALSE, <<>>)>>,
    <<Run(<<"C", "o", "n", "t", "e", "n", "t", "s">>,
          TRUE, FALSE, FALSE, <<>>)>>,
    <<Run(<<" ", "H", "i">>, TRUE, FALSE, FALSE, <<>>),
      Plain(<<" ", "t", "h", "e", "r", "e", " ">>)>>,
    <<Run(<<>>, FALSE, TRUE, FALSE, <<>>),
      Plain(<<"A", "l", "s", "o", " ", "b", "y">>)>>,
    <<Plain(<<" ", "\t">>)>>,
    <<>>,
    <<Run(<<"*", "*", "*">>, FALSE, FALSE, FALSE, <<"M", "o", "n", "o">>)>>,
    <<Run(<<"H", "i">>, TRUE, TRUE, TRUE, <<"C", "o", "u", "r", "i", "e", "r">>)>> }

(***************************************************************************)
(* The extractor.                                                          *)
(***************************************************************************)
NoMeta == <<>>

ExtractorInit ==
    /\ pc = "idle"
    /\ block_counter = 0
    /\ in_front_matter = TRUE
    /\ in_back_matter = FALSE
    /\ chapter_count = 0
    /\ blocks = <<>>
    /\ units_read = 0
    /\ page_num = 0
    /\ cur = <<>>
    /\ source_meta = NoMeta

\* Path(file_path).suffix.lower() and the dispatch on it.
FormatOf(ext) ==
    LET e == LowerStr(ext)
    IN  IF e = <<".", "d", "o", "c", "x">> THEN "docx"
        ELSE IF e = <<".", "p", "d", "f">> THEN "pdf"
        ELSE IF e \in {<<".", "t", "x", "t">>, <<".", "m", "d">>} THEN "txt"
        ELSE "error"

\* A faulty variant of Extract: the block counter of the instance is not
\* reset, so the ids go on from those of the call before.
Extract_KeepCounter(ext) ==
    /\ pc \in {"idle", "done", "error"}
    /\ pc' = FormatOf(ext)
    /\ block_counter' = block_counter
    /\ in_front_matter' = TRUE
    /\ in_back_matter' = FALSE
    /\ chapter_count' = 0
    /\ blocks' = <<>>
    /\ units_read' = 0
    /\ page_num' = 0
    /\ cur' = <<>>
    /\ source_meta' = NoMeta
    /\ UNCHANGED not_extractor_vars

\* extract, up to the first loop iteration of the _extract_* it calls: the
\* block counter is reset, the locals are set, an unknown extension raises.
Extract(ext) ==
    /\ pc \in {"idle", "done", "error"}
    /\ pc' = FormatOf(ext)
    /\ block_counter' = 0
    /\ in_front_matter' = TRUE
    /\ in_back_matter' = FALSE
    /\ chapter_count' = 0
    /\ blocks' = <<>>
    /\ units_read' = 0
    /\ page_num' = 0
    /\ cur' = <<>>
    /\ source_meta' = NoMeta
    /\ UNCHANGED not_extractor_vars

\* One iteration of the loop of _extract_txt.
TxtLine(line) ==
    /\ pc = "txt"
    /\ units_read < MaxUnits
    /\ cur' = line
    /\ units_read' = units_read + 1
    /\ LET text == Strip(line)
           det == DetectBlockType(text, <<>>, in_front_matter, in_back_matter)
           upd == UpdateState(det.type, det.meta, in_front_matter,
                              in_back_matter, chapter_count)
       IN  IF text = <<>>
           THEN UNCHANGED <<in_front_matter, in_back_matter, chapter_count,
                            block_counter, blocks>>
           ELSE /\ in_front_matter' = upd.in_front_matter
                /\ in_back_matter' = upd.in_back_matter
                /\ chapter_count' = upd.chapter_count
                /\ block_counter' = block_counter + 1
                /\ blocks' = Append(blocks,
                       TxtBlock(block_counter + 1, det.type, text, upd.meta))
    /\ UNCHANGED <<pc, page_num, source_meta>>
    /\ UNCHANGED not_extractor_vars

\* The outer loop of _extract_pdf moves to the next page.
PdfNextPage ==
    /\ pc = "pdf"
    /\ page_num < MaxPages
    /\ page_num' = page_num + 1
    /\ UNCHANGED <<pc, block_counter, in_front_matter, in_back_matter,
                   chapter_count, blocks, units_read, cur, source_meta>>
    /\ UNCHANGED not_extractor_vars

\* One iteration of the inner loop of _extract_pdf.
PdfLine(line) ==
    /\ pc = "pdf"
    /\ page_num >= 1
    /\ units_read < MaxUnits
    /\ cur' = line
    /\ units_read' = units_read + 1
    /\ LET text == Strip(line)
           det == DetectBlockType(text, <<>>, in_front_matter, in_back_matter)
           upd == UpdateState(det.type, det.meta, in_front_matter,
                              in_back_matter, chapter_count)
       IN  IF text = <<>>
           THEN UNCHANGED <<in_front_matter, in_back_matter, chapter_count,
                            block_counter, blocks>>
           ELSE /\ in_front_matter' = upd.in_front_matter
                /\ in_back_matter' = upd.in_back_matter
                /\ chapter_count' = upd.chapter_count
                /\ block_counter' = block_counter + 1
                /\ blocks' = Append(blocks,
                       PdfBlock(block_counter + 1, det.type, text, upd.meta,
                                page_num))
    /\ UNCHANGED <<pc, page_num, source_meta>>
    /\ UNCHANGED not_extractor_vars

\* One iteration of the loop of _extract_docx.
DocxPara(para) ==
    /\ pc = "docx"
    /\ units_read < MaxUnits
    /\ cur' = para
    /\ units_read' = units_read + 1
    /\ LET text == Strip(ParaText(para))
           det == DetectBlockType(text, <<>>, in_front_matter, in_back_matter)
           upd == UpdateState(det.type, det.meta, in_front_matter,
                              in_back_matter, chapter_count)
           spans == ExtractSpansFromPara(para)
       IN  IF text = <<>>
           THEN UNCHANGED <<in_front_matter, in_back_matter, chapter_count,
                            block_counter, blocks>>
           ELSE /\ in_front_matter' = upd.in_front_matter
                /\ in_back_matter' = upd.in_back_matter
                /\ chapter_count' = upd.chapter_count
                /\ block_counter' = block_counter + 1
                /\ blocks' = Append(blocks,
                       DocxBlock(block_counter + 1, det.type, text, spans,
                                 upd.meta, units_read))
    /\ UNCHANGED <<pc, page_num, source_meta>>
    /\ UNCHANGED not_extractor_vars

\* The end of _extract_*: the source metadata is built and the pair returned.
Finish ==
    /\ pc \in {"txt", "pdf", "docx"}
    /\ pc' = "done"
    /\ source_meta' =
           [original_format |-> pc,
            total_units |-> IF pc = "pdf" THEN page_num ELSE units_read,
            detected_chapters |-> chapter_count,
            has_front_matter |->
                \E i \in 1..Len(blocks) :
                    StartsWithFrontMatter(blocks[i].type)
                    \/ blocks[i].type = "toc_marker",
            has_back_matter |->
                \E i \in 1..Len(blocks) : StartsWithBackMatter(blocks[i].type)]
    /\ UNCHANGED <<block_counter, in_front_matter, in_back_matter,
                   chapter_count, blocks, units_read, page_num, cur>>
    /\ UNCHANGED not_extractor_vars

HashIdle ==
    /\ hash_in = <<>>
    /\ hash_alt = <<>>
    /\ hash_rel = "none"
    /\ hash_out = <<>>

\* The other components before any call of theirs.
VerifyIdle == verify_out = <<>>

LineageIdle ==
    /\ lineage_artifact = <<>>
    /\ lineage_parents = <<>>
    /\ lineage_out = <<>>

DetectIdle ==
    /\ detect_blocks = <<>>
    /\ detect_out = <<>>

BuildIdle ==
    /\ build_in = <<>>
    /\ build_out = <<>>

WorkerIdle ==
    /\ services_table = <<>>
    /\ manuscript_url = <<>>
    /\ r2_bucket = <<>>
    /\ worker_runs = <<>>

Init == ExtractorInit /\ HashIdle /\ VerifyIdle /\ LineageIdle /\ DetectIdle /\ BuildIdle /\ WorkerIdle

Next ==
    \/ \E ext \in Extensions : Extract(ext)
    \/ \E line \in Lines : TxtLine(line)
    \/ PdfNextPage
    \/ \E line \in PdfLines : PdfLine(line)
    \/ \E para \in Paragraphs : DocxPara(para)
    \/ Finish

Spec == Init /\ [][Next]_vars

(***************************************************************************)
(* Vocabulary of the properties.                                           *)
(***************************************************************************)
\* The matter region the two flags encode, as _detect_block_type reads them:
\* the front flag is consulted first.
Region ==
    IF in_front_matter THEN "front"
    ELSE IF in_back_matter THEN "back"
    ELSE "body"

\* The types the extractor emits.
BlockTypes == {"scene_break", "chapter_heading", "front_matter_dedication",
               "front_matter_copyright", "front_matter_title", "toc_marker",
               "back_matter_about_author", "back_matter_also_by", "paragraph"}

\* The keywords in the order the specification lists them, with their types.
KeywordOrder == <<
    <<<<"d", "e", "d", "i", "c", "a", "t", "i", "o", "n">>, "front_matter_dedication">>,
    <<<<"c", "o", "p", "y", "r", "i", "g", "h", "t">>, "front_matter_copyright">>,
    <<<<"t", "i", "t", "l", "e">>, "front_matter_title">>,
    <<<<"c", "o", "n", "t", "e", "n", "t", "s">>, "toc_marker">>,
    <<<<"t", "a", "b", "l", "e", " ", "o", "f", " ",
        "c", "o", "n", "t", "e", "n", "t", "s">>, "toc_marker">>,
    <<<<"a", "b", "o", "u", "t", " ", "t", "h", "e", " ",
        "a", "u", "t", "h", "o", "r">>, "back_matter_about_author">>,
    <<<<"a", "b", "o", "u", "t", " ", "a", "u", "t", "h", "o", "r">>,
      "back_matter_about_author">>,
    <<<<"a", "l", "s", "o", " ", "b", "y">>, "back_matter_also_by">> >>

IsSceneBreakText(t) ==
    \E i \in 1..Len(SCENE_BREAK_PATTERNS) : MatchSceneBreak(SCENE_BREAK_PATTERNS[i], t)

IsChapterText(t) ==
    \E i \in 1..Len(CHAPTER_PATTERNS) : MatchChapter(CHAPTER_PATTERNS[i], t)

\* The positions in KeywordOrder of the keywords a text contains.
KeywordsIn(t) ==
    LET lower == LowerStr(t)
    IN  {i \in 1..Len(KeywordOrder) : Contains(lower, KeywordOrder[i][1])}

\* A text that matches no scene break marker, no chapter pattern, no keyword.
IsPlainText(t) ==
    ~IsSceneBreakText(t) /\ ~IsChapterText(t) /\ KeywordsIn(t) = {}

RECURSIVE SpanTexts(_)
\* The texts of a list of spans, concatenated.
SpanTexts(spans) ==
    IF spans = <<>> THEN <<>> ELSE spans[1].text \o SpanTexts(Tail(spans))

\* The removal of leading and trailing whitespace, stated position by
\* position: the longest stretch that begins and ends with a solid character.
Trimmed(s) ==
    IF \A i \in 1..Len(s) : IsSpace(s[i]) THEN <<>>
    ELSE LET a == CHOOSE i \in 1..Len(s) :
                     ~IsSpace(s[i]) /\ \A j \in 1..(i - 1) : IsSpace(s[j])
             b == CHOOSE i \in 1..Len(s) :
                     ~IsSpace(s[i]) /\ \A j \in (i + 1)..Len(s) : IsSpace(s[j])
         IN  SubSeq(s, a, b)

\* The text the classifier saw for a block.
BlockText(b) ==
    IF "text" \in DOMAIN b THEN b.text ELSE Trimmed(SpanTexts(b.spans))

\* The positions of the chapter headings among the blocks.
Headings == {i \in 1..Len(blocks) : blocks[i].type = "chapter_heading"}

\* A step of an extract loop: one more unit has been read.
ReadStep == units_read' = units_read + 1

\* The characters of the unit such a step read, before trimming.
RawUnit == IF pc = "docx" THEN ParaText(cur') ELSE cur'

Last(seq) == seq[Len(seq)]

(***************************************************************************)
(* The block classifier.                                                   *)
(***************************************************************************)
\* The type the precedence order gives a text in a region: scene break,
\* then chapter heading, then a keyword's type, then the region's default,
\* then paragraph. For a text with keywords, the set of their types.
TypesByPrecedence(t, region) ==
    IF IsSceneBreakText(t) THEN {"scene_break"}
    ELSE IF IsChapterText(t) THEN {"chapter_heading"}
    ELSE IF KeywordsIn(t) # {} THEN {KeywordOrder[i][2] : i \in KeywordsIn(t)}
    ELSE IF region = "front" THEN {"front_matter_dedication"}
    ELSE IF region = "back" THEN {"back_matter_about_author"}
    ELSE {"paragraph"}

\* C1: every non-blank unit, in every classifier state, is emitted with the
\* type of the first rule that applies in the order scene break, chapter
\* heading, keyword, region fallback, paragraph.
C1_PrecedenceOrder ==
    [][ReadStep
        => \A t \in {Trimmed(RawUnit)} :
             t # <<>>
             => /\ Len(blocks') = Len(blocks) + 1
                /\ Last(blocks').type \in TypesByPrecedence(t, Region)
                /\ (Last(blocks').type = "paragraph"
                       => IsPlainText(t) /\ Region = "body")]_vars

\* C1 witness: a unit that matches a chapter pattern and contains a keyword
\* was emitted as chapter_heading, and a later unit as paragraph.
C1_Witness ==
    \E i \in 1..Len(blocks) : \E j \in 1..Len(blocks) :
        /\ i < j
        /\ blocks[i].type = "chapter_heading"
        /\ KeywordsIn(BlockText(blocks[i])) # {}
        /\ blocks[j].type = "paragraph"

\* C2 (as claimed): after a chapter heading the counter has grown by one
\* and the region is body, whatever it was; the next unit that matches
\* no marker, pattern or keyword is a paragraph.
C2_ChapterEntersBody ==
    \A i \in Headings :
        /\ (i = Len(blocks)
               => /\ Region = "body"
                  /\ ~in_back_matter
                  /\ chapter_count = Cardinality(Headings))
        /\ (i < Len(blocks) /\ IsPlainText(BlockText(blocks[i + 1]))
               => blocks[i + 1].type = "paragraph")

\* The first integer in a text that holds a digit.
FirstInteger(t) ==
    DecimalValue(SubSeq(t, SearchDigits(t)[1], SearchDigits(t)[2]))

C4_ChapterNumbersIncrease ==
    \A i \in Headings :
        /\ ((\A j \in Headings : i <= j) => blocks[i].meta.chapter_number = 1)
        /\ \A j \in Headings :
               i < j => blocks[i].meta.chapter_number < blocks[j].meta.chapter_number

\* C4 witness: two chapter headings whose texts hold decreasing integers,
\* with a change of matter region between them.
C4_Witness ==
    \E i \in Headings : \E j \in Headings : \E k \in 1..Len(blocks) :
        /\ i < k /\ k < j
        /\ StartsWithBackMatter(blocks[k].type)
        /\ FirstInteger(BlockText(blocks[i])) > FirstInteger(BlockText(blocks[j]))

\* C5: a unit that is neither scene break nor chapter heading and contains
\* a keyword gets the type of the first matching keyword in the listed
\* order; afterwards the region is front for a front matter type or
\* toc_marker, and back, with the front flag cleared, for a back matter type.
C5_FirstKeywordWins ==
    [][ReadStep
        => \A t \in {Trimmed(RawUnit)} : \A first \in {FirstOf(KeywordsIn(t))} :
             (~IsSceneBreakText(t) /\ ~IsChapterText(t) /\ first # 0)
             => \A type \in {KeywordOrder[first][2]} :
                  /\ Len(blocks') = Len(blocks) + 1
                  /\ Last(blocks').type = type
                  /\ (type \in {"front_matter_dedication", "front_matter_copyright",
                                "front_matter_title", "toc_marker"}
                         => Region' = "front")
                  /\ (type \in {"back_matter_about_author", "back_matter_also_by"}
                         => Region' = "back" /\ ~in_front_matter')]_vars

\* C5 witness: a unit with a front and a back keyword was emitted with the
\* front keyword's type, and a unit with a back keyword put the classifier
\* in the back region.
C5_Witness ==
    /\ Len(blocks) >= 2
    /\ \E i \in 1..(Len(blocks) - 1) :
           /\ blocks[i].type = "front_matter_title"
           /\ Cardinality({KeywordOrder[k][2] : k \in KeywordsIn(BlockText(blocks[i]))}) > 1
    /\ StartsWithBackMatter(Last(blocks).type)
    /\ KeywordsIn(BlockText(Last(blocks))) # {}
    /\ Region = "back"

\* C6 (as claimed): the two region flags are never both true.
C6_FlagsExclusive == ~(in_front_matter /\ in_back_matter)

\* C7: classification is total: a step that reads a blank or whitespace-only
\* unit adds no block; a step that reads any other unit appends exactly one
\* block, of a type of the closed set, after the blocks already there, and
\* the extractor stays in its loop.
C7_ClassificationTotal ==
    [][ReadStep
        => /\ pc' = pc
           /\ IF \A i \in 1..Len(RawUnit) : IsSpace(RawUnit[i])
              THEN blocks' = blocks
              ELSE /\ Len(blocks') = Len(blocks) + 1
                   /\ SubSeq(blocks', 1, Len(blocks)) = blocks
                   /\ Last(blocks').type \in BlockTypes]_vars

\* C7 witness: three units read, one of them whitespace-only, two blocks.
C7_Witness ==
    /\ units_read = 3
    /\ Len(blocks) = 2
    /\ cur # <<>>
    /\ pc = "txt"
    /\ \A i \in 1..Len(cur) : IsSpace(cur[i])

\* C8: every block carries exactly one of text and spans, and spans, when
\* present, is not empty.
C8_TextXorSpans ==
    \A i \in 1..Len(blocks) :
        /\ ("text" \in DOMAIN blocks[i]) # ("spans" \in DOMAIN blocks[i])
        /\ ("spans" \in DOMAIN blocks[i] => Len(blocks[i].spans) >= 1)

\* C8 witness: a document with a block of several spans, a block of one
\* marked span and a block of plain text.
C8_Witness ==
    /\ \E i \in 1..Len(blocks) :
           "spans" \in DOMAIN blocks[i] /\ Len(blocks[i].spans) > 1
    /\ \E i \in 1..Len(blocks) :
           "spans" \in DOMAIN blocks[i] /\ Len(blocks[i].spans) = 1
    /\ \E i \in 1..Len(blocks) : "text" \in DOMAIN blocks[i]

\* C9 (as claimed): the span texts of a paragraph emitted with spans,
\* concatenated, are the paragraph's trimmed text, and no span is empty.
C9_SpansSpellTrimmedText ==
    (/\ pc = "docx"
     /\ blocks # <<>>
     /\ Last(blocks).source_loc.doc_paragraph_index = units_read - 1
     /\ "spans" \in DOMAIN Last(blocks))
    => /\ SpanTexts(Last(blocks).spans) = Trimmed(ParaText(cur))
       /\ \A k \in 1..Len(Last(blocks).spans) : Last(blocks).spans[k].text # <<>>

(***************************************************************************)
(* The canonical hasher (lib/artifact_hash.py).                            *)
(*                                                                         *)
(* A JSON value is a record [tag, atom, items]: a string ("str", its       *)
(* characters in atom), null ("null"), a list ("list", its elements the    *)
(* val fields of items) or a dict ("obj", items its key/value pairs in     *)
(* insertion order, the keys distinct).                                    *)
(***************************************************************************)
JStr(chars) == [tag |-> "str", atom |-> chars, items |-> <<>>]
JNull == [tag |-> "null", atom |-> <<>>, items |-> <<>>]
JList(elems) ==
    [tag |-> "list", atom |-> <<>>,
     items |-> [i \in 1..Len(elems) |-> [key |-> <<>>, val |-> elems[i]]]]
JObj(pairs) ==
    [tag |-> "obj", atom |-> <<>>,
     items |-> [i \in 1..Len(pairs) |-> [key |-> pairs[i][1], val |-> pairs[i][2]]]]

\* The Unicode code point of a character of the model's alphabet.
CodePoint(c) ==
    CASE c = " " -> 32
      [] c = "\"" -> 34
      [] c = "," -> 44
      [] c = ":" -> 58
      [] c = "[" -> 91
      [] c = "]" -> 93
      [] c = "_" -> 95
      [] c = "{" -> 123
      [] c = "}" -> 125
      [] IsDigit(c) -> 48 + DigitVal(c)
      [] \E i \in 1..26 : UpperChars[i] = c ->
             64 + (CHOOSE i \in 1..26 : UpperChars[i] = c)
      [] \E i \in 1..26 : LowerChars[i] = c ->
             96 + (CHOOSE i \in 1..26 : LowerChars[i] = c)

RECURSIVE StrLess(_, _)
\* The order of Python strings: by code point, a proper prefix first.
StrLess(a, b) ==
    IF b = <<>> THEN FALSE
    ELSE IF a = <<>> THEN TRUE
    ELSE IF a[1] = b[1] THEN StrLess(Tail(a), Tail(b))
    ELSE CodePoint(a[1]) < CodePoint(b[1])

RECURSIVE SortedByKey(_)
\* sort_keys=True: the pairs of a dict, ordered by key.
SortedByKey(items) ==
    IF items = <<>> THEN <<>>
    ELSE LET m == CHOOSE i \in 1..Len(items) :
                     \A j \in 1..Len(items) :
                         j = i \/ StrLess(items[i].key, items[j].key)
             rest == [k \in 1..(Len(items) - 1) |->
                         IF k < m THEN items[k] ELSE items[k + 1]]
         IN  <<items[m]>> \o SortedByKey(rest)

RECURSIVE JsonDumps(_, _)
RECURSIVE JsonJoin(_, _, _)
\* The members of a list or dict, serialized and joined by the item
\* separator ','; the key and the key separator ':' before a dict's values.
JsonJoin(items, with_keys, sort_keys) ==
    IF items = <<>> THEN <<>>
    ELSE (IF with_keys THEN <<"\"">> \o items[1].key \o <<"\"", ":">> ELSE <<>>)
         \o JsonDumps(items[1].val, sort_keys)
         \o (IF Len(items) > 1 THEN <<",">> ELSE <<>>)
         \o JsonJoin(Tail(items), with_keys, sort_keys)

\* json.dumps(value, sort_keys=sort_keys, separators=(',', ':'),
\* ensure_ascii=False), on the model's alphabet (nothing there is escaped).
JsonDumps(v, sort_keys) ==
    IF v.tag = "str" THEN <<"\"">> \o v.atom \o <<"\"">>
    ELSE IF v.tag = "null" THEN <<"n", "u", "l", "l">>
    ELSE IF v.tag = "list" THEN <<"[">> \o JsonJoin(v.items, FALSE, sort_keys) \o <<"]">>
    ELSE <<"{">>
         \o JsonJoin(IF sort_keys THEN SortedByKey(v.items) ELSE v.items,
                     TRUE, sort_keys)
         \o <<"}">>

\* A faulty variant of CanonicalJson: the keys are written in insertion order.
CanonicalJson_Unsorted(artifact) == JsonDumps(artifact, FALSE)

\* The canonical JSON text of an artifact.
CanonicalJson(artifact) == JsonDumps(artifact, TRUE)

\* str.encode('utf-8') on the model's alphabet, which is ASCII: one byte
\* per character, the code point.
EncodeUtf8(chars) == [i \in 1..Len(chars) |-> CodePoint(chars[i])]

SHA256 == <<"s", "h", "a", "2", "5", "6">>
SHA1 == <<"s", "h", "a", "1">>
MD5 == <<"m", "d", "5">>

HexChars == <<"0", "1", "2", "3", "4", "5", "6", "7", "8", "9",
              "a", "b", "c", "d", "e", "f">>

\* Bytes in lowercase hexadecimal, two characters a byte.
Hex(bytes) ==
    [i \in 1..(2 * Len(bytes)) |->
        IF i % 2 = 1 THEN HexChars[(bytes[(i + 1) \div 2] \div 16) + 1]
        ELSE HexChars[(bytes[i \div 2] % 16) + 1]]

\* hashlib's hexdigest. The digest functions are taken to be free of
\* collisions on the inputs of the model: the digest of a byte string is
\* represented by the digest size of the algorithm followed by the byte
\* string itself, both in hexadecimal.
HexDigest(algorithm, bytes) ==
    Hex(<<IF algorithm = SHA256 THEN 32 ELSE IF algorithm = SHA1 THEN 20 ELSE 16>>)
    \o Hex(bytes)

\* What a call returns or raises.
Returned(value) == [raised |-> FALSE, value |-> value]
Raised(error) == [raised |-> TRUE, value |-> error]

\* compute_artifact_hash: f"{algorithm}:{hexdigest}", or the ValueError
\* raised for an unsupported algorithm.
ComputeArtifactHash(artifact, algorithm) ==
    LET json_bytes == EncodeUtf8(CanonicalJson(artifact))
    IN  IF algorithm \in {SHA256, SHA1, MD5}
        THEN Returned(algorithm \o <<":">> \o HexDigest(algorithm, json_bytes))
        ELSE Raised(<<"V", "a", "l", "u", "e", "E", "r", "r", "o", "r">>)

(***************************************************************************)
(* The artifacts hashed, and the ways one artifact is turned into another. *)
(***************************************************************************)
\* The elements of every list differ in content, not only in key order.
Artifacts == {
    JObj(<< <<<<"b">>, JStr(<<"x">>)>>,
            <<<<"a">>, JObj(<< <<<<"d">>, JNull>>,
                              <<<<"c">>, JList(<<JStr(<<"p">>), JStr(<<"q">>)>>)>> >>)>>,
            <<<<"B">>, JList(<<JStr(<<"q">>),
                              JObj(<< <<<<"a", "b">>, JStr(<<"1">>)>>,
                                      <<<<"a">>, JStr(<<"2">>)>> >>)>>)>> >>),
    JObj(<< <<<<"i", "d">>, JStr(<<"b", "_", "1">>)>>,
            <<<<"t", "e", "x", "t">>, JStr(<<"H", "i">>)>> >>) }

Algorithms == {SHA256, SHA1, MD5, <<"s", "h", "a", "5", "1", "2">>}

\* A sequence with the elements at i and i + 1 exchanged.
SwapAt(seq, i) ==
    [k \in 1..Len(seq) |->
        IF k = i THEN seq[i + 1] ELSE IF k = i + 1 THEN seq[i] ELSE seq[k]]

RECURSIVE Reorderings(_, _)
\* The values got from v by exchanging two neighbours among the members of
\* one dict (tag "obj") or one list (tag "list"), at any nesting level.
Reorderings(v, tag) ==
    (IF v.tag = tag
     THEN {[v EXCEPT !.items = SwapAt(v.items, i)] : i \in 1..(Len(v.items) - 1)}
     ELSE {})
    \cup UNION {{[v EXCEPT !.items[k].val = w] : w \in Reorderings(v.items[k].val, tag)}
                   : k \in 1..Len(v.items)}

HashInit ==
    /\ hash_in \in Artifacts
    /\ hash_alt = hash_in
    /\ hash_rel = "same"
    /\ hash_out = <<>>

\* The caller holds the same artifact with two keys of a dict in another
\* order.
ReorderKeys ==
    /\ \E w \in Reorderings(hash_alt, "obj") : hash_alt' = w
    /\ hash_rel' = IF hash_rel = "same" THEN "keys" ELSE hash_rel
    /\ hash_out' = <<>>
    /\ UNCHANGED <<hash_in>>
    /\ UNCHANGED not_hash_vars

\* The caller holds an artifact with two elements of one list exchanged.
ReorderList ==
    /\ hash_rel \in {"same", "keys"}
    /\ \E w \in Reorderings(hash_alt, "list") : hash_alt' = w
    /\ hash_rel' = "list"
    /\ hash_out' = <<>>
    /\ UNCHANGED <<hash_in>>
    /\ UNCHANGED not_hash_vars

\* compute_artifact_hash is called on both artifacts.
ComputeHash(algorithm) ==
    /\ hash_out = <<>>
    /\ hash_out' = [algorithm |-> algorithm,
                    of_in |-> ComputeArtifactHash(hash_in, algorithm),
                    of_alt |-> ComputeArtifactHash(hash_alt, algorithm)]
    /\ UNCHANGED <<hash_in, hash_alt, hash_rel>>
    /\ UNCHANGED not_hash_vars

InitHash == ExtractorInit /\ HashInit /\ VerifyIdle /\ LineageIdle /\ DetectIdle /\ BuildIdle /\ WorkerIdle

NextHash ==
    \/ ReorderKeys
    \/ ReorderList
    \/ \E algorithm \in Algorithms : ComputeHash(algorithm)

SpecHash == InitHash /\ [][NextHash]_vars

\* C10: artifacts that differ only in the order of dict keys, at any
\* nesting level, have the same hash under each supported algorithm; the
\* order of a list is kept in the canonical form, so that artifacts that
\* differ in the order of a list have different canonical forms.
C10_KeyOrderInvariance ==
    /\ (hash_out # <<>> /\ hash_rel \in {"same", "keys"}
           /\ hash_out.algorithm \in {SHA256, SHA1, MD5})
          => /\ ~hash_out.of_in.raised
             /\ hash_out.of_in = hash_out.of_alt
    /\ hash_rel = "list" => CanonicalJson(hash_in) # CanonicalJson(hash_alt)

\* C10 witness: a hash computed of an artifact and of a copy in which the
\* keys of the top level and of a nested dict are in another order.
C10_Witness ==
    /\ hash_out # <<>>
    /\ hash_rel = "keys"
    /\ hash_out.algorithm = SHA256
    /\ hash_alt.items[1].key # hash_in.items[1].key
    /\ \E k \in 1..Len(hash_in.items) : \E j \in 1..Len(hash_alt.items) :
           /\ hash_in.items[k].key = hash_alt.items[j].key
           /\ hash_in.items[k].val # hash_alt.items[j].val
    /\ hash_out.of_in = hash_out.of_alt

(***************************************************************************)
(* Verification of a hash (lib/artifact_hash.py, verify_artifact_hash).    *)
(***************************************************************************)
ValueError == <<"V", "a", "l", "u", "e", "E", "r", "r", "o", "r">>

\* A faulty variant of VerifyArtifactHash: the hash is recomputed with the
\* default algorithm, whatever the prefix of the expected hash names.
VerifyArtifactHash_DefaultAlgorithm(artifact, expected_hash) ==
    LET colon == FirstOf({i \in 1..Len(expected_hash) : expected_hash[i] = ":"})
    IN  IF colon = 0 THEN Raised(ValueError)
        ELSE LET actual_hash == ComputeArtifactHash(artifact, SHA256)
             IN  Returned(actual_hash.value = expected_hash)

\* A faulty variant of VerifyArtifactHash: an error of the recomputation is
\* reported as a mismatch.
VerifyArtifactHash_FalseOnError(artifact, expected_hash) ==
    LET colon == FirstOf({i \in 1..Len(expected_hash) : expected_hash[i] = ":"})
    IN  IF colon = 0 THEN Raised(ValueError)
        ELSE LET algorithm == SubSeq(expected_hash, 1, colon - 1)
                 actual_hash == ComputeArtifactHash(artifact, algorithm)
             IN  IF actual_hash.raised THEN Returned(FALSE)
                 ELSE Returned(actual_hash.value = expected_hash)

\* verify_artifact_hash: a ValueError when the expected hash holds no ':',
\* else the algorithm is what precedes the first ':' (split(':', 1)), the
\* hash is recomputed with it (an error of compute_artifact_hash goes up to
\* the caller) and compared with the whole expected string.
VerifyArtifactHash(artifact, expected_hash) ==
    LET colon == FirstOf({i \in 1..Len(expected_hash) : expected_hash[i] = ":"})
    IN  IF colon = 0 THEN Raised(ValueError)
        ELSE LET algorithm == SubSeq(expected_hash, 1, colon - 1)
                 actual_hash == ComputeArtifactHash(artifact, algorithm)
             IN  IF actual_hash.raised THEN actual_hash
                 ELSE Returned(actual_hash.value = expected_hash)

\* The expected hashes a caller holds for an artifact: its hash under each
\* supported algorithm, and strings that are not its hash.
ExpectedHashes(artifact) ==
    {ComputeArtifactHash(artifact, a).value : a \in {SHA256, SHA1, MD5}}
    \cup {<<>>,
          SHA256,
          SHA256 \o HexDigest(SHA256, EncodeUtf8(CanonicalJson(artifact))),
          <<"s", "h", "a", "5", "1", "2", ":", "0", "0">>,
          <<":", "0", "0">>,
          <<"S", "H", "A", "2", "5", "6", ":">>
              \o HexDigest(SHA256, EncodeUtf8(CanonicalJson(artifact))),
          <<"m", "d", "5", ":", "0", "0">>,
          <<"s", "h", "a", "1", ":">>,
          ComputeArtifactHash(artifact, MD5).value \o <<":">>}

RECURSIVE Mutations(_)
\* The values got from v by changing the value of one field, at any nesting
\* level: a string gets one more character or becomes null, null becomes
\* the empty string.
Mutations(v) ==
    IF v.tag = "str" THEN {JStr(v.atom \o <<"x">>), JNull}
    ELSE IF v.tag = "null" THEN {JStr(<<>>)}
    ELSE UNION {{[v EXCEPT !.items[k].val = w] : w \in Mutations(v.items[k].val)}
                   : k \in 1..Len(v.items)}

\* The caller holds the same artifact with two keys of a dict in another
\* order; nothing has been verified yet.
VerifyReorderKeys ==
    /\ verify_out = <<>>
    /\ ReorderKeys

\* The caller holds an artifact in which the value of one field differs.
MutateField ==
    /\ verify_out = <<>>
    /\ hash_rel \in {"same", "keys"}
    /\ \E w \in Mutations(hash_alt) : hash_alt' = w
    /\ hash_rel' = "value"
    /\ UNCHANGED <<hash_in, hash_out>>
    /\ UNCHANGED <<extractor_vars, verify_vars, lineage_vars, detect_vars, build_vars, worker_vars>>

\* verify_artifact_hash is called on both artifacts with an expected hash
\* held for the first.
Verify(expected_hash) ==
    /\ verify_out = <<>>
    /\ verify_out' = [expected_hash |-> expected_hash,
                      rel |-> hash_rel,
                      alt |-> hash_alt,
                      of_in |-> VerifyArtifactHash(hash_in, expected_hash),
                      of_alt |-> VerifyArtifactHash(hash_alt, expected_hash)]
    /\ UNCHANGED <<extractor_vars, hash_vars, lineage_vars, detect_vars, build_vars, worker_vars>>

NextVerify ==
    \/ VerifyReorderKeys
    \/ MutateField
    \/ \E expected_hash \in ExpectedHashes(hash_in) : Verify(expected_hash)

SpecVerify == InitHash /\ [][NextVerify]_vars

\* C11: an artifact verifies against its own hash under each supported
\* algorithm, and an artifact that differs from it in the value of a field
\* does not verify against that hash.
C11_VerifyRoundTrip ==
    (/\ verify_out # <<>>
     /\ \E a \in {SHA256, SHA1, MD5} :
            verify_out.expected_hash = ComputeArtifactHash(hash_in, a).value)
    => /\ verify_out.of_in = Returned(TRUE)
       /\ (verify_out.rel = "value" => verify_out.of_alt = Returned(FALSE))

\* C11 witness: the sha1 hash of an artifact verified against the artifact
\* and against a copy with one field changed.
C11_Witness ==
    /\ verify_out # <<>>
    /\ verify_out.expected_hash = ComputeArtifactHash(hash_in, SHA1).value
    /\ verify_out.rel = "value"
    /\ verify_out.alt # hash_in
    /\ verify_out.of_in = Returned(TRUE)
    /\ verify_out.of_alt = Returned(FALSE)

\* What precedes the first ':' of a string that holds one.
PrefixOf(s) ==
    SubSeq(s, 1, (CHOOSE i \in 1..Len(s) :
                     s[i] = ":" /\ \A j \in 1..(i - 1) : s[j] # ":") - 1)

\* C12: verify_artifact_hash raises when the expected string has no ':' or
\* its prefix is not sha256, sha1 or md5; returns false when the prefix is
\* supported and the hash recomputed with it differs from the expected
\* string; returns true otherwise.
C12_VerifyOutcomes ==
    verify_out # <<>>
    => \A e \in {verify_out.expected_hash} :
         IF (\A i \in 1..Len(e) : e[i] # ":") \/ PrefixOf(e) \notin {SHA256, SHA1, MD5}
         THEN verify_out.of_alt.raised
         ELSE IF ComputeArtifactHash(verify_out.alt, PrefixOf(e)).value # e
         THEN verify_out.of_alt = Returned(FALSE)
         ELSE verify_out.of_alt = Returned(TRUE)

\* C12 witness: an expected hash with an unsupported prefix made the call
\* raise, on an artifact whose own sha256 digest follows the prefix.
C12_Witness ==
    /\ verify_out # <<>>
    /\ verify_out.rel = "same"
    /\ Len(verify_out.expected_hash) > 7
    /\ SubSeq(verify_out.expected_hash, 1, 7) = <<"S", "H", "A", "2", "5", "6", ":">>
    /\ verify_out.of_alt.raised

(***************************************************************************)
(* The lineage tracker (lib/artifact_lineage.py).                          *)
(*                                                                         *)
(* Artifacts and lineage entries are JSON values as above; true and false  *)
(* are the values JTrue and JFalse. A result dict of                       *)
(* validate_lineage_integrity is a record of its keys.                     *)
(***************************************************************************)
JTrue == [tag |-> "true", atom |-> <<>>, items |-> <<>>]
JFalse == [tag |-> "false", atom |-> <<>>, items |-> <<>>]

\* bool as a JSON value.
JBool(b) == IF b THEN JTrue ELSE JFalse

\* dict.get(key, default).
DictGet(d, key, default) ==
    IF \E i \in 1..Len(d.items) : d.items[i].key = key
    THEN d.items[CHOOSE i \in 1..Len(d.items) : d.items[i].key = key].val
    ELSE default

\* The elements of a list value, as a sequence.
Elements(v) == [i \in 1..Len(v.items) |-> v.items[i].val]

\* d[key] = value on a dict that has the key.
DictSet(d, key, value) ==
    [d EXCEPT !.items = [i \in 1..Len(d.items) |->
                            IF d.items[i].key = key
                            THEN [key |-> key, val |-> value]
                            ELSE d.items[i]]]

PARENT_ARTIFACTS == <<"p", "a", "r", "e", "n", "t", "_", "a", "r", "t", "i", "f", "a", "c",
        "t", "s">>
ARTIFACT_TYPE == <<"a", "r", "t", "i", "f", "a", "c", "t", "_", "t", "y", "p", "e">>
ARTIFACT_VERSION == <<"a", "r", "t", "i", "f", "a", "c", "t", "_", "v", "e", "r", "s", "i",
        "o", "n">>
ARTIFACT_KEY == <<"a", "r", "t", "i", "f", "a", "c", "t", "_", "k", "e", "y">>
ARTIFACT_HASH == <<"a", "r", "t", "i", "f", "a", "c", "t", "_", "h", "a", "s", "h">>
PRODUCED_BY == <<"p", "r", "o", "d", "u", "c", "e", "d", "_", "b", "y">>
PRODUCED_AT == <<"p", "r", "o", "d", "u", "c", "e", "d", "_", "a", "t">>
PROCESSING == <<"p", "r", "o", "c", "e", "s", "s", "i", "n", "g">>
WORKER_NAME == <<"w", "o", "r", "k", "e", "r", "_", "n", "a", "m", "e">>
PROCESSED_AT == <<"p", "r", "o", "c", "e", "s", "s", "e", "d", "_", "a", "t">>

\* build_lineage_entry, the time of production given.
BuildLineageEntry(parent_key, parent_hash, parent_type, parent_version, produced_by, produced_at) ==
    JObj(<< <<ARTIFACT_TYPE, parent_type>>,
            <<ARTIFACT_VERSION, parent_version>>,
            <<ARTIFACT_KEY, parent_key>>,
            <<ARTIFACT_HASH, parent_hash>>,
            <<PRODUCED_BY, produced_by>>,
            <<PRODUCED_AT, produced_at>> >>)

\* A faulty variant of BuildLineageChain: the chain is the artifact's own
\* list, so that appending the self entry changes the artifact.
BuildLineageChain_Aliased(artifact, include_self) ==
    LET parent_artifacts == DictGet(artifact, PARENT_ARTIFACTS, JList(<<>>))
        processing == DictGet(artifact, PROCESSING, JObj(<<>>))
        self_entry ==
            JObj(<< <<ARTIFACT_TYPE, DictGet(artifact, ARTIFACT_TYPE, JNull)>>,
                    <<ARTIFACT_VERSION, DictGet(artifact, ARTIFACT_VERSION, JNull)>>,
                    <<ARTIFACT_KEY, JNull>>,
                    <<ARTIFACT_HASH, JNull>>,
                    <<PRODUCED_BY, DictGet(processing, WORKER_NAME, JNull)>>,
                    <<PRODUCED_AT, DictGet(processing, PROCESSED_AT, JNull)>> >>)
        chain == IF include_self
                 THEN Append(Elements(parent_artifacts), self_entry)
                 ELSE Elements(parent_artifacts)
    IN  [chain |-> chain,
         artifact |-> IF \E i \in 1..Len(artifact.items) :
                             artifact.items[i].key = PARENT_ARTIFACTS
                      THEN DictSet(artifact, PARENT_ARTIFACTS, JList(chain))
                      ELSE artifact]

\* build_lineage_chain: the chain returned, and the artifact as the call
\* leaves it. The chain is a new list, extended by the parent entries and,
\* if asked for, the self entry; the artifact's list is only read.
BuildLineageChain(artifact, include_self) ==
    LET parent_artifacts == DictGet(artifact, PARENT_ARTIFACTS, JList(<<>>))
        processing == DictGet(artifact, PROCESSING, JObj(<<>>))
        self_entry ==
            JObj(<< <<ARTIFACT_TYPE, DictGet(artifact, ARTIFACT_TYPE, JNull)>>,
                    <<ARTIFACT_VERSION, DictGet(artifact, ARTIFACT_VERSION, JNull)>>,
                    <<ARTIFACT_KEY, JNull>>,
                    <<ARTIFACT_HASH, JNull>>,
                    <<PRODUCED_BY, DictGet(processing, WORKER_NAME, JNull)>>,
                    <<PRODUCED_AT, DictGet(processing, PROCESSED_AT, JNull)>> >>)
    IN  [chain |-> IF include_self
                   THEN Append(Elements(parent_artifacts), self_entry)
                   ELSE Elements(parent_artifacts),
         artifact |-> artifact]

RECURSIVE HashMismatches(_, _, _)
\* The loop of validate_lineage_integrity from position i (counted from 1)
\* on: an entry for each declared parent whose declared hash is not the
\* sha256 hash of the parent fetched at the same position.
HashMismatches(declared_parents, fetched, i) ==
    IF i > Len(declared_parents) \/ i > Len(fetched) THEN <<>>
    ELSE LET declared == declared_parents[i]
             declared_hash == DictGet(declared, ARTIFACT_HASH, JNull)
             actual_hash == JStr(ComputeArtifactHash(fetched[i], SHA256).value)
         IN  (IF declared_hash # actual_hash
              THEN <<[parent_index |-> i - 1,
                      parent_key |-> DictGet(declared, ARTIFACT_KEY, JNull),
                      declared_hash |-> declared_hash,
                      actual_hash |-> actual_hash,
                      message |-> <<"H", "a", "s", "h", " ", "m", "i", "s", "m", "a", "t", "c",
                              "h", " ", "-", " ", "p", "a", "r", "e", "n", "t", " ", "a", "r",
                                      "t", "i", "f", "a", "c", "t", " ", "h", "a", "s", " ",
                                              "b", "e", "e", "n", " ", "m", "o", "d", "i", "f",
                                                      "i", "e", "d", " ", "o", "r", " ", "c",
                                                              "o", "r", "r", "u", "p", "t",
                                                                      "e", "d">>]>>
              ELSE <<>>)
             \o HashMismatches(declared_parents, fetched, i + 1)

\* A faulty variant of ValidateLineageIntegrity: without fetched parents
\* the validation is reported as failed.
ValidateLineageIntegrity_FalseWhenUnfetched(artifact, parent_artifacts_from_r2) ==
    LET declared_parents == Elements(DictGet(artifact, PARENT_ARTIFACTS, JList(<<>>)))
    IN  IF parent_artifacts_from_r2 = JNull \/ parent_artifacts_from_r2.items = <<>>
        THEN [valid |-> JFalse,
              message |-> <<"C", "a", "n", "n", "o", "t", " ", "v", "a", "l", "i", "d", "a",
                      "t", "e", " ", "w", "i", "t", "h", "o", "u", "t", " ", "f", "e", "t",
                              "c", "h", "i", "n", "g", " ", "p", "a", "r", "e", "n", "t", " ",
                                      "a", "r", "t", "i", "f", "a", "c", "t", "s", " ", "f",
                                              "r", "o", "m", " ", "R", "2">>,
              declared_parent_count |-> Len(declared_parents)]
        ELSE IF Len(declared_parents) # Len(parent_artifacts_from_r2.items)
        THEN [valid |-> JFalse,
              error |-> <<"P", "a", "r", "e", "n", "t", " ", "c", "o", "u", "n", "t", " ", "m",
                      "i", "s", "m", "a", "t", "c", "h", ":", " ", "d", "e", "c", "l", "a",
                              "r", "e", "d", " ">>
                        \o DecimalDigits(Len(declared_parents))
                        \o <<",", " ", "p", "r", "o", "v", "i", "d", "e", "d", " ">>
                        \o DecimalDigits(Len(parent_artifacts_from_r2.items))]
        ELSE LET errors == HashMismatches(declared_parents,
                                          Elements(parent_artifacts_from_r2), 1)
             IN  [valid |-> JBool(Len(errors) = 0),
                  parent_count |-> Len(declared_parents),
                  errors |-> IF errors # <<>> THEN JList(errors) ELSE JNull]

\* validate_lineage_integrity. `not parent_artifacts_from_r2` holds of None
\* and of the empty list.
ValidateLineageIntegrity(artifact, parent_artifacts_from_r2) ==
    LET declared_parents == Elements(DictGet(artifact, PARENT_ARTIFACTS, JList(<<>>)))
    IN  IF parent_artifacts_from_r2 = JNull \/ parent_artifacts_from_r2.items = <<>>
        THEN [valid |-> JNull,
              message |-> <<"C", "a", "n", "n", "o", "t", " ", "v", "a", "l", "i", "d", "a",
                      "t", "e", " ", "w", "i", "t", "h", "o", "u", "t", " ", "f", "e", "t",
                              "c", "h", "i", "n", "g", " ", "p", "a", "r", "e", "n", "t", " ",
                                      "a", "r", "t", "i", "f", "a", "c", "t", "s", " ", "f",
                                              "r", "o", "m", " ", "R", "2">>,
              declared_parent_count |-> Len(declared_parents)]
        ELSE IF Len(declared_parents) # Len(parent_artifacts_from_r2.items)
        THEN [valid |-> JFalse,
              error |-> <<"P", "a", "r", "e", "n", "t", " ", "c", "o", "u", "n", "t", " ", "m",
                      "i", "s", "m", "a", "t", "c", "h", ":", " ", "d", "e", "c", "l", "a",
                              "r", "e", "d", " ">>
                        \o DecimalDigits(Len(declared_parents))
                        \o <<",", " ", "p", "r", "o", "v", "i", "d", "e", "d", " ">>
                        \o DecimalDigits(Len(parent_artifacts_from_r2.items))]
        ELSE LET errors == HashMismatches(declared_parents,
                                          Elements(parent_artifacts_from_r2), 1)
             IN  [valid |-> JBool(Len(errors) = 0),
                  parent_count |-> Len(declared_parents),
                  errors |-> IF errors # <<>> THEN JList(errors) ELSE JNull]

(***************************************************************************)
(* The artifacts whose lineage is tracked.                                 *)
(***************************************************************************)
\* The most parents an artifact declares, and the most fetched.
MaxParents == 2

\* The parent artifacts in storage; the third is the first with its
\* content changed.
StoredParents == {
    JObj(<< <<<<"i", "d">>, JStr(<<"a">>)>> >>),
    JObj(<< <<<<"i", "d">>, JStr(<<"b">>)>> >>),
    JObj(<< <<<<"i", "d">>, JStr(<<"a", "x">>)>> >>) }

\* The lineage entries an artifact declares: of the first parent with its
\* sha256 and with its sha1 hash, of the second with its sha256 hash and
\* with no hash.
DeclaredEntries ==
    LET pa == JObj(<< <<<<"i", "d">>, JStr(<<"a">>)>> >>)
        pb == JObj(<< <<<<"i", "d">>, JStr(<<"b">>)>> >>)
        Entry(key, hash) ==
            BuildLineageEntry(JStr(key), hash, JStr(<<"m", "a", "n", "u", "s", "c", "r", "i",
                    "p", "t">>), JStr(<<"1">>),
                              JStr(<<"w", "o", "r", "k", "e", "r", "_", "1", "_", "m", "a",
                                      "n", "u", "s", "c", "r", "i", "p", "t", "_", "p", "r",
                                              "o", "c", "e", "s", "s", "o", "r">>),
                              JStr(<<"2", "0", "2", "6", "-", "0", "1", "-", "0", "3", "T",
                                      "1", "2", ":", "0", "0", ":", "0", "0", "Z">>))
    IN  {Entry(<<"k", "a">>, JStr(ComputeArtifactHash(pa, SHA256).value)),
         Entry(<<"k", "a", "1">>, JStr(ComputeArtifactHash(pa, SHA1).value)),
         Entry(<<"k", "b">>, JStr(ComputeArtifactHash(pb, SHA256).value)),
         Entry(<<"k", "n">>, JNull)}

\* The artifacts before any parent is declared: one as ArtifactBuilder.build
\* lays it out, one with a processing time and the keys in another order.
LineageArtifacts == {
    JObj(<< <<ARTIFACT_TYPE, JStr(<<"m", "a", "n", "u", "s", "c", "r", "i", "p", "t">>)>>,
            <<ARTIFACT_VERSION, JStr(<<"1">>)>>,
            <<PROCESSING, JObj(<< <<WORKER_NAME, JStr(<<"w", "o", "r", "k", "e", "r", "_", "1",
                    "_", "m", "a", "n", "u", "s", "c", "r", "i", "p", "t", "_", "p", "r", "o",
                            "c", "e", "s", "s", "o", "r">>)>> >>)>>,
            <<PARENT_ARTIFACTS, JList(<<>>)>> >>),
    JObj(<< <<PARENT_ARTIFACTS, JList(<<>>)>>,
            <<PROCESSING, JObj(<< <<PROCESSED_AT, JStr(<<"2", "0", "2", "6", "-", "0", "1",
                    "-", "0", "3", "T", "1", "2", ":", "0", "5", ":", "0", "0", "Z">>)>>,
                                  <<WORKER_NAME, JStr(<<"w", "o", "r", "k", "e", "r", "_", "2",
                                          "_", "i", "n", "t", "e", "r", "i", "o", "r", "_",
                                                  "f", "o", "r", "m", "a", "t", "t", "e",
                                                          "r">>)>> >>)>>,
            <<ARTIFACT_VERSION, JStr(<<"2">>)>>,
            <<ARTIFACT_TYPE, JStr(<<"i", "n", "t", "e", "r", "i", "o", "r", "_", "p", "d",
                    "f">>)>> >>) }

LineageInit ==
    /\ lineage_artifact \in LineageArtifacts
    /\ lineage_parents = JNull
    /\ lineage_out = <<>>

\* The parents the artifact declares.
DeclaredParents == Elements(DictGet(lineage_artifact, PARENT_ARTIFACTS, JList(<<>>)))

\* The artifact is given one more lineage entry.
DeclareParent(entry) ==
    /\ lineage_out = <<>>
    /\ Len(DeclaredParents) < MaxParents
    /\ lineage_artifact' = DictSet(lineage_artifact, PARENT_ARTIFACTS,
                                   JList(Append(DeclaredParents, entry)))
    /\ UNCHANGED <<lineage_parents, lineage_out>>
    /\ UNCHANGED <<extractor_vars, hash_vars, verify_vars, detect_vars, build_vars, worker_vars>>

\* The caller fetches no parent and passes the empty list.
FetchNothing ==
    /\ lineage_out = <<>>
    /\ lineage_parents = JNull
    /\ lineage_parents' = JList(<<>>)
    /\ UNCHANGED <<lineage_artifact, lineage_out>>
    /\ UNCHANGED <<extractor_vars, hash_vars, verify_vars, detect_vars, build_vars, worker_vars>>

\* The caller fetches one more parent artifact from storage.
FetchParent(parent) ==
    /\ lineage_out = <<>>
    /\ IF lineage_parents = JNull
       THEN lineage_parents' = JList(<<parent>>)
       ELSE /\ Len(lineage_parents.items) < MaxParents
            /\ lineage_parents' = JList(Append(Elements(lineage_parents), parent))
    /\ UNCHANGED <<lineage_artifact, lineage_out>>
    /\ UNCHANGED <<extractor_vars, hash_vars, verify_vars, detect_vars, build_vars, worker_vars>>

\* build_lineage_chain is called.
BuildChain(include_self) ==
    /\ lineage_out = <<>>
    /\ \A r \in {BuildLineageChain(lineage_artifact, include_self)} :
         /\ lineage_out' = [call |-> "build_lineage_chain",
                            include_self |-> include_self,
                            artifact |-> lineage_artifact,
                            result |-> r.chain]
         /\ lineage_artifact' = r.artifact
    /\ UNCHANGED <<lineage_parents>>
    /\ UNCHANGED <<extractor_vars, hash_vars, verify_vars, detect_vars, build_vars, worker_vars>>

\* validate_lineage_integrity is called.
Validate ==
    /\ lineage_out = <<>>
    /\ lineage_out' = [call |-> "validate_lineage_integrity",
                       result |-> ValidateLineageIntegrity(lineage_artifact,
                                                           lineage_parents)]
    /\ UNCHANGED <<lineage_artifact, lineage_parents>>
    /\ UNCHANGED <<extractor_vars, hash_vars, verify_vars, detect_vars, build_vars, worker_vars>>

InitLineage ==
    ExtractorInit /\ HashIdle /\ VerifyIdle /\ LineageInit /\ DetectIdle /\ BuildIdle /\ WorkerIdle

NextLineage ==
    \/ \E entry \in DeclaredEntries : DeclareParent(entry)
    \/ FetchNothing
    \/ \E parent \in StoredParents : FetchParent(parent)
    \/ \E include_self \in BOOLEAN : BuildChain(include_self)
    \/ Validate

SpecLineage == InitLineage /\ [][NextLineage]_vars

(***************************************************************************)
(* Properties of the lineage tracker.                                      *)
(***************************************************************************)
\* The parents declared by the artifact a call was made on.
ParentsOf(artifact) == Elements(DictGet(artifact, PARENT_ARTIFACTS, JList(<<>>)))

BuiltChain == lineage_out # <<>> /\ lineage_out.call = "build_lineage_chain"

Validated == lineage_out # <<>> /\ lineage_out.call = "validate_lineage_integrity"

\* C13: the chain is the declared parents in their order, followed, if
\* include_self, by one entry for the artifact itself whose key and hash are
\* null and whose type and version are the artifact's; and the artifact is
\* after the call what it was before.
C13_ChainOrder ==
    BuiltChain
    => \A ps \in {ParentsOf(lineage_out.artifact)} : \A chain \in {lineage_out.result} :
         /\ lineage_artifact = lineage_out.artifact
         /\ IF lineage_out.include_self
            THEN /\ Len(chain) = Len(ps) + 1
                 /\ SubSeq(chain, 1, Len(ps)) = ps
                 /\ DictGet(chain[Len(chain)], ARTIFACT_KEY, JTrue) = JNull
                 /\ DictGet(chain[Len(chain)], ARTIFACT_HASH, JTrue) = JNull
                 /\ DictGet(chain[Len(chain)], ARTIFACT_TYPE, JTrue)
                        = DictGet(lineage_out.artifact, ARTIFACT_TYPE, JNull)
                 /\ DictGet(chain[Len(chain)], ARTIFACT_VERSION, JTrue)
                        = DictGet(lineage_out.artifact, ARTIFACT_VERSION, JNull)
            ELSE chain = ps

\* C13 witness: a chain built with the self entry for an artifact that
\* declares two different parents.
C13_Witness ==
    /\ BuiltChain
    /\ lineage_out.include_self
    /\ Len(ParentsOf(lineage_artifact)) = 2
    /\ ParentsOf(lineage_artifact)[1] # ParentsOf(lineage_artifact)[2]
    /\ Len(lineage_out.result) = 3
    /\ lineage_out.result[1] = ParentsOf(lineage_artifact)[1]

\* C14 (as claimed): whenever a list of fetched parents is passed whose
\* length is not the number of declared parents, the result is valid=false
\* with the count mismatch error and without a list of hash comparisons.
C14_CountMismatchFails ==
    (/\ Validated
     /\ lineage_parents # JNull
     /\ Len(lineage_parents.items) # Len(DeclaredParents))
    => /\ lineage_out.result.valid = JFalse
       /\ "error" \in DOMAIN lineage_out.result
       /\ "errors" \notin DOMAIN lineage_out.result

\* C15: without fetched parents (the argument left at None) the result is
\* the indeterminate one, valid = None, whatever the artifact declares;
\* and a result whose valid is None is never that of a comparison: it holds
\* neither a count mismatch error nor a list of hash mismatches.
C15_IndeterminateWithoutParents ==
    Validated
    => /\ lineage_parents = JNull
          => /\ lineage_out.result.valid = JNull
             /\ lineage_out.result.valid \notin {JTrue, JFalse}
             /\ lineage_out.result.declared_parent_count = Len(DeclaredParents)
       /\ lineage_out.result.valid = JNull
          => DOMAIN lineage_out.result = {"valid", "message", "declared_parent_count"}
       /\ lineage_out.result.valid # JNull
          => /\ lineage_parents # JNull
             /\ lineage_out.result.valid \in {JTrue, JFalse}

\* C15 witness: an artifact that declares two parents validated without
\* fetched parents.
C15_Witness ==
    /\ Validated
    /\ lineage_parents = JNull
    /\ Len(DeclaredParents) = 2
    /\ lineage_out.result.valid = JNull

\* The positions (counted from 1) at which the declared hash is not the
\* sha256 hash of the fetched parent.
MismatchingPositions ==
    {i \in 1..Len(DeclaredParents) :
        DictGet(DeclaredParents[i], ARTIFACT_HASH, JNull)
            # JStr(ComputeArtifactHash(lineage_parents.items[i].val, SHA256).value)}

\* The result reports the mismatching positions, all of them and only them,
\* in ascending order, each with its index, declared key and both hashes.
ReportsMismatches(result, bad) ==
    /\ result.valid = JBool(bad = {})
    /\ bad # {}
       => /\ "errors" \in DOMAIN result
          /\ result.errors.tag = "list"
          /\ Len(result.errors.items) = Cardinality(bad)
          /\ \A k \in 1..Len(result.errors.items) :
                \A e \in {result.errors.items[k].val} :
                  /\ e.parent_index + 1 \in bad
                  /\ k > 1 => result.errors.items[k - 1].val.parent_index < e.parent_index
                  /\ e.parent_key
                        = DictGet(DeclaredParents[e.parent_index + 1], ARTIFACT_KEY, JNull)
                  /\ e.declared_hash
                        = DictGet(DeclaredParents[e.parent_index + 1], ARTIFACT_HASH, JNull)
                  /\ e.actual_hash
                        = JStr(ComputeArtifactHash(
                                   lineage_parents.items[e.parent_index + 1].val,
                                   SHA256).value)

\* C16 (as claimed): for declared and fetched lists of the same length the
\* result is valid=true exactly when no position mismatches, and otherwise
\* valid=false with the mismatches reported.
C16_MismatchesReported ==
    (/\ Validated
     /\ lineage_parents # JNull
     /\ Len(lineage_parents.items) = Len(DeclaredParents))
    => ReportsMismatches(lineage_out.result, MismatchingPositions)

\* The same for lists that are not empty: this much holds.
MismatchesReportedOfNonEmptyLists ==
    (/\ Validated
     /\ lineage_parents # JNull
     /\ Len(lineage_parents.items) = Len(DeclaredParents)
     /\ Len(DeclaredParents) > 0)
    => ReportsMismatches(lineage_out.result, MismatchingPositions)

(***************************************************************************)
(* The warning detector (lib/warning_detector.py).                         *)
(*                                                                         *)
(* A character outside ASCII, and the grave accent, is written as the      *)
(* string that names its code point, "U+2014" for the em dash: it is one   *)
(* character of a text.                                                    *)
(***************************************************************************)
\* The printable ASCII characters, from the space (32) to the tilde (126).
Ascii == <<" ", "!", "\"", "#", "$", "%", "&", "'", "(", ")", "*", "+", ",", "-", ".", "/",
        "0", "1", "2", "3", "4", "5", "6", "7", "8", "9", ":", ";", "<", "=", ">", "?", "@",
        "A", "B", "C", "D", "E", "F", "G", "H", "I", "J", "K", "L", "M", "N", "O", "P", "Q",
        "R", "S", "T", "U", "V", "W", "X", "Y", "Z", "[", "\\", "]", "^",
        "_">> \o <<"U+0060">> \o <<"a", "b", "c", "d", "e", "f", "g", "h", "i", "j", "k", "l",
        "m", "n", "o", "p", "q", "r", "s", "t", "u", "v", "w", "x", "y", "z", "{", "|", "}", "~">>

\* The characters outside ASCII that the texts of the model hold, with
\* their code points: section sign, em dash, dagger, double dagger, right
\* arrow.
NonAscii == << <<"U+00A7", 167>>, <<"U+2014", 8212>>, <<"U+2020", 8224>>,
              <<"U+2021", 8225>>, <<"U+2192", 8594>> >>

\* ord(char).
Ord(c) ==
    IF c = "\t" THEN 9
    ELSE IF c = "\n" THEN 10
    ELSE IF \E i \in 1..Len(NonAscii) : NonAscii[i][1] = c
    THEN NonAscii[CHOOSE i \in 1..Len(NonAscii) : NonAscii[i][1] = c][2]
    ELSE 31 + (CHOOSE i \in 1..Len(Ascii) : Ascii[i] = c)

RECURSIVE HexDigits(_)
\* The hexadecimal digits of a natural number.
HexDigits(n) ==
    IF n < 16 THEN <<HexChars[n + 1]>>
    ELSE HexDigits(n \div 16) \o <<HexChars[(n % 16) + 1]>>

\* hex(n).
HexOf(n) == <<"0", "x">> \o HexDigits(n)

IsLower(c) == \E i \in 1..26 : LowerChars[i] = c
IsUpper(c) == \E i \in 1..26 : UpperChars[i] = c

\* The regular expression class \w.
IsWordChar(c) == IsLower(c) \/ IsUpper(c) \/ IsDigit(c) \/ c = "_"

\* text[:n].
Prefix(text, n) == SubSeq(text, 1, IF Len(text) < n THEN Len(text) ELSE n)

RECURSIVE Ascending(_)
\* The numbers of a finite set, in ascending order.
Ascending(S) ==
    IF S = {} THEN <<>>
    ELSE LET m == CHOOSE i \in S : \A j \in S : i <= j
         IN  <<m>> \o Ascending(S \ {m})

\* The number of occurrences of a character in a text.
CountChar(text, c) == Cardinality({i \in 1..Len(text) : text[i] = c})

RISKY_UNICODE_RANGES == <<
    <<8192, 8303>>,    \* 0x2000-0x206F General Punctuation
    <<8448, 8527>>,    \* 0x2100-0x214F Letterlike Symbols
    <<8592, 8703>>,    \* 0x2190-0x21FF Arrows
    <<8704, 8959>>,    \* 0x2200-0x22FF Mathematical Operators
    <<8960, 9215>>,    \* 0x2300-0x23FF Miscellaneous Technical
    <<9472, 9599>>,    \* 0x2500-0x257F Box Drawing
    <<9600, 9631>>,    \* 0x2580-0x259F Block Elements
    <<9632, 9727>> >>  \* 0x25A0-0x25FF Geometric Shapes

\* The sources of the regular expressions of OCR_PATTERNS.
OCR_PATTERNS == <<<<"\\", "b", "[", "I", "l", "1", "]", "\\", "b">>, <<"[", "^", "\\", "s",
        "]", "{", "2", "0", ",", "}">>, <<"[", "a", "-", "z", "]", "[", "A", "-", "Z", "]">>,
        <<"\\", "d", "[", "a", "-", "z", "]">>>>

\* _get_block_text.
GetBlockText(block) ==
    IF "text" \in DOMAIN block THEN block.text
    ELSE IF "spans" \in DOMAIN block THEN SpanTexts(block.spans)
    ELSE <<>>

\* _detect_images: a warning for each block whose text holds a placeholder.
DetectImages(blks) ==
    LET image_keywords == {<<"[", "i", "m", "a", "g", "e", "]">>, <<"[", "f", "i", "g", "u",
            "r", "e", "]">>, <<"[", "p", "h", "o", "t", "o", "]">>, <<"[", "i", "l", "l", "u",
            "s", "t", "r", "a", "t", "i", "o", "n", "]">>}
        hits == Ascending({i \in 1..Len(blks) :
                    \E text_lower \in {LowerStr(GetBlockText(blks[i]))} :
                        \E kw \in image_keywords : Contains(text_lower, kw)})
    IN  [k \in 1..Len(hits) |->
            [code |-> "DETECTED_IMAGES",
             severity |-> "error",
             message |-> <<"I", "m", "a", "g", "e", " ", "p", "l", "a", "c", "e", "h", "o",
                     "l", "d", "e", "r", " ", "d", "e", "t", "e", "c", "t", "e", "d", " ", "i",
                     "n", " ", "t", "e", "x", "t">>,
             block_index |-> hits[k] - 1,
             context |-> Prefix(GetBlockText(blks[hits[k]]), 100)]]

\* _detect_tables: a warning for each block with three tabs or three pipes.
DetectTables(blks) ==
    LET hits == Ascending({i \in 1..Len(blks) :
                    \/ CountChar(GetBlockText(blks[i]), "\t") >= 3
                    \/ CountChar(GetBlockText(blks[i]), "|") >= 3})
    IN  [k \in 1..Len(hits) |->
            [code |-> "DETECTED_TABLES",
             severity |-> "error",
             message |-> <<"T", "a", "b", "l", "e", "-", "l", "i", "k", "e", " ", "s", "t",
                     "r", "u", "c", "t", "u", "r", "e", " ", "d", "e", "t", "e", "c", "t", "e",
                     "d">>,
             block_index |-> hits[k] - 1,
             context |-> Prefix(GetBlockText(blks[hits[k]]), 100)]]

\* re.search of the footnote pattern: digits in brackets or in parentheses,
\* a dagger, a double dagger or a section sign.
SearchFootnote(text) ==
    \/ \E i \in 1..Len(text) : \E j \in (i + 2)..Len(text) :
          /\ \/ text[i] = "[" /\ text[j] = "]"
             \/ text[i] = "(" /\ text[j] = ")"
          /\ \A k \in (i + 1)..(j - 1) : IsDigit(text[k])
    \/ \E i \in 1..Len(text) : text[i] \in {"U+2020", "U+2021", "U+00A7"}

\* _detect_footnotes: a warning for each block with a footnote marker.
DetectFootnotes(blks) ==
    LET hits == Ascending({i \in 1..Len(blks) : SearchFootnote(GetBlockText(blks[i]))})
    IN  [k \in 1..Len(hits) |->
            [code |-> "DETECTED_FOOTNOTES",
             severity |-> "warning",
             message |-> <<"F", "o", "o", "t", "n", "o", "t", "e", "/", "e", "n", "d", "n",
                     "o", "t", "e", " ", "m", "a", "r", "k", "e", "r", " ", "d", "e", "t", "e",
                     "c", "t", "e", "d">>,
             block_index |-> hits[k] - 1,
             context |-> Prefix(GetBlockText(blks[hits[k]]), 100)]]
\* _detect_low_chapter_confidence.
DetectLowChapterConfidence(blks) ==
    LET chapter_blocks == {i \in 1..Len(blks) : blks[i].type = "chapter_heading"}
    IN  IF Cardinality(chapter_blocks) = 0
        THEN <<[code |-> "LOW_CHAPTER_CONFIDENCE",
                severity |-> "warning",
                message |-> <<"N", "o", " ", "c", "h", "a", "p", "t", "e", "r", "s", " ", "d",
                        "e", "t", "e", "c", "t", "e", "d", " ", "i", "n", " ", "m", "a", "n",
                        "u", "s", "c", "r", "i", "p", "t">>,
                detected_chapters |-> 0]>>
        ELSE IF Cardinality(chapter_blocks) < 3 /\ Len(blks) > 100
        THEN <<[code |-> "LOW_CHAPTER_CONFIDENCE",
                severity |-> "info",
                message |-> <<"V", "e", "r", "y", " ", "f", "e", "w", " ", "c", "h", "a", "p",
                        "t", "e", "r", "s", " ", "d", "e", "t", "e", "c", "t", "e", "d", " ",
                        "i", "n", " ", "l", "o", "n", "g", " ", "m", "a", "n", "u", "s", "c",
                        "r", "i", "p", "t">>,
                detected_chapters |-> Cardinality(chapter_blocks),
                total_blocks |-> Len(blks)]>>
        ELSE <<>>

\* The test of the loop of _detect_poem_like_blocks.
IsShortParagraph(block) ==
    Len(GetBlockText(block)) < 50 /\ block.type = "paragraph"

\* _detect_poem_like_blocks: a warning for each maximal run of four or more
\* consecutive short paragraphs, with the indices of the run.
DetectPoemLikeBlocks(blks) ==
    LET starts == Ascending({i \in 1..Len(blks) :
                      /\ IsShortParagraph(blks[i])
                      /\ (i = 1 \/ ~IsShortParagraph(blks[i - 1]))
                      /\ \A j \in i..(i + 3) :
                            j <= Len(blks) /\ IsShortParagraph(blks[j])})
        EndOf(i) == CHOOSE e \in i..Len(blks) :
                        /\ (e = Len(blks) \/ ~IsShortParagraph(blks[e + 1]))
                        /\ \A j \in i..e : IsShortParagraph(blks[j])
    IN  [k \in 1..Len(starts) |->
            [code |-> "POEM_LIKE_BLOCKS",
             severity |-> "warning",
             message |-> <<"P", "o", "e", "t", "r", "y", "-", "l", "i", "k", "e", " ", "f",
                     "o", "r", "m", "a", "t", "t", "i", "n", "g", " ", "d", "e", "t", "e", "c",
                     "t", "e", "d">>,
             block_indices |-> [n \in 1..(EndOf(starts[k]) - starts[k] + 1) |->
                                   starts[k] + n - 2],
             line_count |-> EndOf(starts[k]) - starts[k] + 1]]

\* The test of the inner loops of _detect_unicode_risk.
IsRisky(c) ==
    \E code_point \in {Ord(c)} : \E r \in 1..Len(RISKY_UNICODE_RANGES) :
        /\ RISKY_UNICODE_RANGES[r][1] <= code_point
        /\ code_point <= RISKY_UNICODE_RANGES[r][2]

\* The risky characters of a text, each with hex() of its code point.
RiskyChars(text) ==
    LET at == Ascending({i \in 1..Len(text) : IsRisky(text[i])})
    IN  [k \in 1..Len(at) |-> <<text[at[k]], HexOf(Ord(text[at[k]]))>>]

\* _detect_unicode_risk: a warning for each block with a risky character.
DetectUnicodeRisk(blks) ==
    LET hits == Ascending({i \in 1..Len(blks) :
                    \E j \in 1..Len(GetBlockText(blks[i])) :
                        IsRisky(GetBlockText(blks[i])[j])})
    IN  [k \in 1..Len(hits) |->
            LET risky_chars == RiskyChars(GetBlockText(blks[hits[k]]))
            IN  [code |-> "UNICODE_RISK",
                 severity |-> "info",
                 message |-> <<"N", "o", "n", "-", "s", "t", "a", "n", "d", "a", "r", "d", " ",
                         "U", "n", "i", "c", "o", "d", "e", " ", "c", "h", "a", "r", "a", "c",
                         "t", "e", "r", "s", " ", "d", "e", "t", "e", "c", "t", "e", "d", " ", "(">>
                             \o DecimalDigits(Len(risky_chars)) \o <<" ", "c", "h", "a", "r",
                                     "s", ")">>,
                 block_index |-> hits[k] - 1,
                 sample_chars |-> Prefix(risky_chars, 5)]]

RECURSIVE CountDoubleSpace(_)
\* text.count of two spaces: the occurrences that do not overlap, from the left.
CountDoubleSpace(text) ==
    IF Len(text) < 2 THEN 0
    ELSE IF text[1] = " " /\ text[2] = " "
    THEN 1 + CountDoubleSpace(SubSeq(text, 3, Len(text)))
    ELSE CountDoubleSpace(Tail(text))

\* _detect_excessive_whitespace: a warning for each block with two spaces
\* in a row.
DetectExcessiveWhitespace(blks) ==
    LET hits == Ascending({i \in 1..Len(blks) :
                    Contains(GetBlockText(blks[i]), <<" ", " ">>)})
    IN  [k \in 1..Len(hits) |->
            [code |-> "EXCESSIVE_WHITESPACE",
             severity |-> "info",
             message |-> <<"M", "u", "l", "t", "i", "p", "l", "e", " ", "c", "o", "n", "s",
                     "e", "c", "u", "t", "i", "v", "e", " ", "s", "p", "a", "c", "e", "s", " ",
                     "d", "e", "t", "e", "c", "t", "e", "d", " ", "(">>
                         \o DecimalDigits(CountDoubleSpace(GetBlockText(blks[hits[k]])))
                         \o <<" ", "o", "c", "c", "u", "r", "r", "e", "n", "c", "e", "s", ")">>,
             block_index |-> hits[k] - 1]]

\* _detect_centered_text: a warning for each block whose text has leading
\* or trailing whitespace around something else.
DetectCenteredText(blks) ==
    LET hits == Ascending({i \in 1..Len(blks) :
                    /\ GetBlockText(blks[i]) # Strip(GetBlockText(blks[i]))
                    /\ Len(Strip(GetBlockText(blks[i]))) > 0})
    IN  [k \in 1..Len(hits) |->
            [code |-> "CENTERED_TEXT_BLOCKS",
             severity |-> "info",
             message |-> <<"C", "e", "n", "t", "e", "r", "e", "d", " ", "o", "r", " ", "i",
                     "n", "d", "e", "n", "t", "e", "d", " ", "t", "e", "x", "t", " ", "d", "e",
                     "t", "e", "c", "t", "e", "d">>,
             block_index |-> hits[k] - 1,
             context |-> Prefix(Strip(GetBlockText(blks[hits[k]])), 100)]]
\* re.findall(OCR_PATTERNS[p], text): the matches from left to right. The
\* matches of the first pattern are single characters between two word
\* boundaries; those of the second are the maximal stretches of twenty or
\* more characters that are not whitespace; a match of the third or fourth
\* cannot overlap another.
FindAllOcr(p, text) ==
    LET at == Ascending(
            IF p = 1
            THEN {i \in 1..Len(text) :
                     /\ text[i] \in {"I", "l", "1"}
                     /\ (i = 1 \/ ~IsWordChar(text[i - 1]))
                     /\ (i = Len(text) \/ ~IsWordChar(text[i + 1]))}
            ELSE IF p = 2
            THEN {i \in 1..Len(text) :
                     /\ (i = 1 \/ IsSpace(text[i - 1]))
                     /\ i + 19 <= Len(text)
                     /\ \A j \in i..(i + 19) : ~IsSpace(text[j])}
            ELSE IF p = 3
            THEN {i \in 1..(Len(text) - 1) : IsLower(text[i]) /\ IsUpper(text[i + 1])}
            ELSE {i \in 1..(Len(text) - 1) : IsDigit(text[i]) /\ IsLower(text[i + 1])})
        EndOf(i) ==
            IF p = 1 THEN i
            ELSE IF p = 2
            THEN CHOOSE e \in i..Len(text) :
                     /\ \A j \in i..e : ~IsSpace(text[j])
                     /\ (e = Len(text) \/ IsSpace(text[e + 1]))
            ELSE i + 1
    IN  [k \in 1..Len(at) |-> SubSeq(text, at[k], EndOf(at[k]))]

\* _detect_ocr_artifacts: for each block, a warning for the first pattern
\* that matches its text.
DetectOcrArtifacts(blks) ==
    LET FirstPattern(i) ==
            FirstOf({p \in 1..Len(OCR_PATTERNS) :
                        FindAllOcr(p, GetBlockText(blks[i])) # <<>>})
        hits == Ascending({i \in 1..Len(blks) : FirstPattern(i) # 0})
    IN  [k \in 1..Len(hits) |->
            [code |-> "OCR_ARTIFACTS",
             severity |-> "warning",
             message |-> <<"P", "o", "s", "s", "i", "b", "l", "e", " ", "O", "C", "R", " ",
                     "e", "r", "r", "o", "r", "s", " ", "d", "e", "t", "e", "c", "t", "e", "d",
                     " ", "(", "p", "a", "t", "t", "e", "r", "n", ":", " ">>
                         \o OCR_PATTERNS[FirstPattern(hits[k])] \o <<")">>,
             block_index |-> hits[k] - 1,
             sample_matches |->
                 Prefix(FindAllOcr(FirstPattern(hits[k]), GetBlockText(blks[hits[k]])), 5)]]

KeyError == <<"K", "e", "y", "E", "r", "r", "o", "r">>

\* _detect_formatting_inconsistency: with three or more chapter headings,
\* the first twenty characters of b['text'] of each are counted (a heading
\* without the key 'text' raises KeyError); a warning when more than two
\* differ, with the first three in order of first occurrence.
DetectFormattingInconsistency(blks) ==
    LET chapter_blocks == Ascending({i \in 1..Len(blks) :
                              blks[i].type = "chapter_heading"})
    IN  IF Len(chapter_blocks) < 3 THEN Returned(<<>>)
        ELSE IF \E k \in 1..Len(chapter_blocks) :
                    "text" \notin DOMAIN blks[chapter_blocks[k]]
        THEN Raised(KeyError)
        ELSE LET formats == [k \in 1..Len(chapter_blocks) |->
                                Prefix(blks[chapter_blocks[k]].text, 20)]
                 firsts == Ascending({k \in 1..Len(formats) :
                               \A j \in 1..(k - 1) : formats[j] # formats[k]})
             IN  IF Len(firsts) > 2
                 THEN Returned(
                        <<[code |-> "FORMATTING_INCONSISTENCY",
                           severity |-> "info",
                           message |-> <<"I", "n", "c", "o", "n", "s", "i", "s", "t", "e", "n",
                                   "t", " ", "c", "h", "a", "p", "t", "e", "r", " ", "h", "e",
                                   "a", "d", "i", "n", "g", " ", "f", "o", "r", "m", "a", "t",
                                   "s", " ", "d", "e", "t", "e", "c", "t", "e", "d">>,
                           format_variations |-> Len(firsts),
                           sample_formats |-> [k \in 1..3 |-> formats[firsts[k]]]]>>)
                 ELSE Returned(<<>>)

\* detect: the warnings of the ten detectors, in the order of the calls; an
\* error of the last detector goes up to the caller. source_meta is handed
\* to three detectors, none of which reads it.
Detect(blks, meta) ==
    LET last == DetectFormattingInconsistency(blks)
    IN  IF last.raised THEN last
        ELSE Returned(DetectImages(blks)
                      \o DetectTables(blks)
                      \o DetectFootnotes(blks)
                      \o DetectLowChapterConfidence(blks)
                      \o DetectPoemLikeBlocks(blks)
                      \o DetectUnicodeRisk(blks)
                      \o DetectExcessiveWhitespace(blks)
                      \o DetectCenteredText(blks)
                      \o DetectOcrArtifacts(blks)
                      \o last.value)
(***************************************************************************)
(* The block sequences given to the detector. A sequence is held as runs:  *)
(* pairs of a block and the number of times it is repeated.                *)
(***************************************************************************)
\* The most runs of a block sequence.
MaxRuns == 3

\* A block as the detectors read it: the type, and the text or the spans.
TextBlock(type, text) == [type |-> type, text |-> text]
SpansBlock(type, spans) == [type |-> type, spans |-> spans]

\* A short paragraph.
ShortParagraph == TextBlock("paragraph", <<"H", "i">>)

\* The runs a block sequence is made of: short paragraphs alone, by four
\* and by a hundred; a paragraph of fifty characters; chapter headings in
\* three formats and one with spans; a paragraph with an image placeholder;
\* a paragraph with pipes, two spaces, a footnote marker, a dash and a
\* digit before a letter; a paragraph whose span begins with a space.
DetectRuns == {
    <<ShortParagraph, 1>>,
    <<ShortParagraph, 4>>,
    <<ShortParagraph, 100>>,
    <<TextBlock("paragraph", <<"I", "t", " ", "w", "a", "s", " ", "a", " ", "b", "r", "i", "g",
            "h", "t", " ", "c", "o", "l", "d", " ", "d", "a", "y", " ", "i", "n", " ", "A",
            "p", "r", "i", "l", ",", " ", "a", "n", "d", " ", "t", "h", "e", " ", "c", "l",
            "o", "c", "k", "s", ".">>), 1>>,
    <<TextBlock("chapter_heading", <<"C", "h", "a", "p", "t", "e", "r", " ", "O", "n", "e">>), 1>>,
    <<TextBlock("chapter_heading", <<"C", "H", "A", "P", "T", "E", "R", " ", "2">>), 1>>,
    <<TextBlock("chapter_heading", <<"3", ".", " ", "T", "i", "t", "l", "e">>), 1>>,
    <<SpansBlock("chapter_heading",
                 <<[text |-> <<"P", "a", "r", "t", " ">>, marks |-> <<>>],
                   [text |-> <<"I", "V">>, marks |-> <<"bold">>]>>), 1>>,
    <<TextBlock("paragraph", <<"s", "e", "e", " ", "[", "I", "m", "a", "g", "e", "]">>), 1>>,
    <<TextBlock("paragraph", <<"a", "|", "b", "|", "c", "|", "d", " ", " ", "(", "1", ")",
            " ">> \o <<"U+2014">> \o <<" ", "1", "i", "k", "e">>), 1>>,
    <<SpansBlock("paragraph", <<[text |-> <<" ", "H", "i">>, marks |-> <<"italic">>]>>), 1>> }

RECURSIVE BlocksOf(_)
\* The block sequence a sequence of runs stands for.
BlocksOf(runs) ==
    IF runs = <<>> THEN <<>>
    ELSE [i \in 1..runs[1][2] |-> runs[1][1]] \o BlocksOf(Tail(runs))

DetectInit ==
    /\ detect_blocks = <<>>
    /\ detect_out = <<>>

\* The block sequence grows by a run.
AppendBlocks(run) ==
    /\ detect_out = <<>>
    /\ Len(detect_blocks) < MaxRuns
    /\ detect_blocks' = Append(detect_blocks, run)
    /\ UNCHANGED <<detect_out>>
    /\ UNCHANGED <<extractor_vars, hash_vars, verify_vars, lineage_vars, build_vars, worker_vars>>

\* detect is called on the block sequence.
DetectCall ==
    /\ detect_out = <<>>
    /\ \E blks \in {BlocksOf(detect_blocks)} : detect_out' = Detect(blks, NoMeta)
    /\ UNCHANGED <<detect_blocks>>
    /\ UNCHANGED <<extractor_vars, hash_vars, verify_vars, lineage_vars, build_vars, worker_vars>>

InitDetect ==
    ExtractorInit /\ HashIdle /\ VerifyIdle /\ LineageIdle /\ DetectInit /\ BuildIdle /\ WorkerIdle

NextDetect ==
    \/ \E run \in DetectRuns : AppendBlocks(run)
    \/ DetectCall

SpecDetect == InitDetect /\ [][NextDetect]_vars
(***************************************************************************)
(* Properties of the warning detector.                                     *)
(***************************************************************************)
\* detect has returned.
Detected == detect_out # <<>> /\ ~detect_out.raised

\* The warnings of a code in what detect returned.
WarningsOf(code) ==
    {k \in 1..Len(detect_out.value) : detect_out.value[k].code = code}

\* A severity, under its name or under the older name of the same level.
SeverityIs(warning, level) ==
    \/ warning.severity = level
    \/ level = "high" /\ warning.severity = "error"
    \/ level = "medium" /\ warning.severity = "warning"
    \/ level = "low" /\ warning.severity = "info"

\* The warning codes of the detectors.
WarningCodes == {"DETECTED_IMAGES", "DETECTED_TABLES", "DETECTED_FOOTNOTES",
                 "LOW_CHAPTER_CONFIDENCE", "POEM_LIKE_BLOCKS", "UNICODE_RISK",
                 "EXCESSIVE_WHITESPACE", "CENTERED_TEXT_BLOCKS", "OCR_ARTIFACTS",
                 "FORMATTING_INCONSISTENCY"}

\* C17 (as claimed): exactly one LOW_CHAPTER_CONFIDENCE warning when there
\* is no chapter heading among more than 50 blocks (medium) or there are
\* chapter headings and more than 500 blocks for each on average (low),
\* and none in every other case.
C17_LowChapterConfidence ==
    Detected
    => \A blks \in {BlocksOf(detect_blocks)} :
       \A chapters \in {Cardinality({i \in 1..Len(blks) :
                                        blks[i].type = "chapter_heading"})} :
       \A low \in {WarningsOf("LOW_CHAPTER_CONFIDENCE")} :
         IF chapters = 0 /\ Len(blks) > 50
         THEN /\ Cardinality(low) = 1
              /\ \A k \in low : SeverityIs(detect_out.value[k], "medium")
         ELSE IF chapters > 0 /\ Len(blks) > 500 * chapters
         THEN /\ Cardinality(low) = 1
              /\ \A k \in low : SeverityIs(detect_out.value[k], "low")
         ELSE low = {}

\* C18 (as claimed): exactly one POEM_LIKE_BLOCKS warning (medium) when more
\* than a fifth of the paragraph blocks have a text shorter than 50
\* characters, wherever they stand, and none otherwise.
C18_PoemLikeByFraction ==
    Detected
    => \A blks \in {BlocksOf(detect_blocks)} :
       \A paragraphs \in {Cardinality({i \in 1..Len(blks) :
                                          blks[i].type = "paragraph"})} :
       \A short \in {Cardinality({i \in 1..Len(blks) : IsShortParagraph(blks[i])})} :
       \A poem \in {WarningsOf("POEM_LIKE_BLOCKS")} :
         IF 5 * short > paragraphs
         THEN /\ Cardinality(poem) = 1
              /\ \A k \in poem : SeverityIs(detect_out.value[k], "medium")
         ELSE poem = {}

\* C19 (as claimed): what detect returns holds at most one warning of each
\* code, however many blocks match the detector of that code.
C19_OneWarningPerCode ==
    Detected => \A code \in WarningCodes : Cardinality(WarningsOf(code)) <= 1

(***************************************************************************)
(* The artifact builder (ArtifactBuilder.build). The builder is made once  *)
(* by the worker with its name and version; build reads its arguments, a   *)
(* fresh uuid4 and the clock, and returns the artifact. The counts are     *)
(* dicts: functions from the keys met to the number of times met.          *)
(***************************************************************************)
\* self.worker_name and self.worker_version, as the worker sets them.
BuilderWorkerName == <<"w", "o", "r", "k", "e", "r", "_", "1", "_", "m", "a", "n", "u", "s",
        "c", "r", "i", "p", "t", "_", "p", "r", "o", "c", "e", "s", "s", "o", "r">>
BuilderWorkerVersion == <<"4", ".", "1", ".", "0">>

\* The values uuid4 and the clock can give, and the service ids.
RunIds == {<<"r", "u", "n", "-", "a">>, <<"r", "u", "n", "-", "b">>}
Instants == {<<"2", "0", "2", "6", "-", "0", "1", "-", "0", "5", "T", "0", "0", ":", "0", "0",
        ":", "0", "0", "+", "0", "0", ":", "0", "0">>}
ServiceIds == {<<"r", "e", "c", "1">>}

\* The key under which the extractor of a format stores the number of units.
TotalKeyOf(format) ==
    IF format = "docx" THEN "total_paragraphs"
    ELSE IF format = "pdf" THEN "total_pages"
    ELSE "total_lines"

\* source_meta.get(key, default). The source metadata of the extractor holds
\* its total under total_units, which stands for the key of its format; the
\* file name is not part of it.
SourceMetaGet(meta, key, default) ==
    IF key \in {"total_paragraphs", "total_pages", "total_lines"}
    THEN IF "total_units" \in DOMAIN meta /\ key = TotalKeyOf(meta.original_format)
         THEN meta.total_units
         ELSE default
    ELSE IF key \in DOMAIN meta THEN meta[key] ELSE default

CountBlockTypes(blks) ==
    [t \in {blks[i].type : i \in 1..Len(blks)} |->
        Cardinality({i \in 1..Len(blks) : blks[i].type = t})]

\* warning.get('severity', 'info')
SeverityOf(warning) ==
    IF "severity" \in DOMAIN warning THEN warning.severity ELSE "info"

CountBySeverity(warnings) ==
    [s \in {"error", "warning", "info"}
           \cup {SeverityOf(warnings[k]) : k \in 1..Len(warnings)} |->
        Cardinality({k \in 1..Len(warnings) : SeverityOf(warnings[k]) = s})]

CountByCode(warnings) ==
    [c \in {warnings[k].code : k \in 1..Len(warnings)} |->
        Cardinality({k \in 1..Len(warnings) : warnings[k].code = c})]

\* ArtifactBuilder.build; parent_artifacts is None or a list.
Build(blks, warnings, meta, service_id, parent_artifacts, run_id, produced_at) ==
    [schema_version |-> <<"1", ".", "0">>,
     artifact_type |-> <<"m", "a", "n", "u", "s", "c", "r", "i", "p", "t">>,
     artifact_version |-> <<"1">>,
     source |->
         [original_filename |-> SourceMetaGet(meta, "original_filename", JNull),
          original_format |-> SourceMetaGet(meta, "original_format", JNull),
          service_id |-> service_id,
          uploaded_at |-> JNull,
          file_size_bytes |-> JNull,
          file_hash |-> JNull],
     processing |->
         [worker_name |-> BuilderWorkerName,
          worker_version |-> BuilderWorkerVersion,
          run_id |-> run_id,
          started_at |-> produced_at,
          completed_at |-> produced_at,
          duration_seconds |-> 0],
     content |->
         [blocks |-> blks,
          total_blocks |-> Len(blks),
          block_type_counts |-> CountBlockTypes(blks)],
     analysis |->
         [warnings |-> warnings,
          total_warnings |-> Len(warnings),
          warnings_by_severity |-> CountBySeverity(warnings),
          warnings_by_code |-> CountByCode(warnings)],
     meta |->
         [detected_chapters |-> SourceMetaGet(meta, "detected_chapters", 0),
          has_front_matter |-> SourceMetaGet(meta, "has_front_matter", FALSE),
          has_back_matter |-> SourceMetaGet(meta, "has_back_matter", FALSE),
          total_paragraphs |-> SourceMetaGet(meta, "total_paragraphs", JNull),
          total_pages |-> SourceMetaGet(meta, "total_pages", JNull),
          total_lines |-> SourceMetaGet(meta, "total_lines", JNull)],
     parent_artifacts |-> IF parent_artifacts = JNull THEN <<>> ELSE parent_artifacts]

\* A caller builds the artifact of the blocks an extraction returned, with
\* the warnings detect returned for them (no artifact when detect raised),
\* and with the source metadata it chooses to pass: that of the same
\* extraction, as the worker does (pronto_worker_1.py:135-148), or none.
BuildCall(meta, run_id, produced_at) ==
    /\ pc = "done"
    /\ build_out = <<>>
    /\ \E detected \in {Detect(blocks, source_meta)} :
       \E service_id \in ServiceIds :
         /\ ~detected.raised
         /\ build_in' = [blocks |-> blocks, warnings |-> detected.value,
                         source_meta |-> meta, service_id |-> service_id]
         /\ build_out' = Build(blocks, detected.value, meta, service_id, JNull,
                               run_id, produced_at)
    /\ UNCHANGED <<extractor_vars, hash_vars, verify_vars, lineage_vars, detect_vars,
                   worker_vars>>

\* One extraction and one build for each run of the worker (process_service
\* is called once by main): nothing is extracted after the artifact is built.
NextBuild ==
    \/ build_out = <<>> /\ Next
    \/ \E meta \in {source_meta, EmptyDict} : \E run_id \in RunIds :
       \E produced_at \in Instants : BuildCall(meta, run_id, produced_at)

SpecBuild == Init /\ [][NextBuild]_vars

(***************************************************************************)
(* Properties of the artifact builder.                                     *)
(***************************************************************************)
Built == build_out # <<>>

\* The number of chapter_heading blocks of a block list.
ChapterHeadings(blks) ==
    Cardinality({i \in 1..Len(blks) : blks[i].type = "chapter_heading"})

\* C20 (as claimed): the block count of the artifact is the length of its
\* block list and its chapter count is the number of chapter_heading blocks
\* of that list, whatever source metadata was passed.
C20_StatisticsAgreeWithBlocks ==
    Built
    => /\ build_out.content.total_blocks = Len(build_out.content.blocks)
       /\ build_out.meta.detected_chapters = ChapterHeadings(build_out.content.blocks)

\* What holds of the two counts: the block count is the length of the block
\* list; the chapter count is the detected_chapters of the source metadata
\* passed, 0 without it, and agrees with the blocks when the metadata is
\* that of the extraction which returned them.
CountsOfBuild ==
    Built
    => /\ build_out.content.total_blocks = Len(build_in.blocks)
       /\ build_out.content.blocks = build_in.blocks
       /\ build_in.source_meta = EmptyDict => build_out.meta.detected_chapters = 0
       /\ build_in.source_meta # EmptyDict
          => build_out.meta.detected_chapters = ChapterHeadings(build_in.blocks)

(***************************************************************************)
(* Further properties of the extractor: scene breaks and block ids.        *)
(***************************************************************************)
\* The type a unit would be given in a classifier state.
TypeIn(line, in_front, in_back) ==
    DetectBlockType(Strip(line), <<>>, in_front, in_back).type

\* C26: a unit that is a scene break marker is emitted as scene_break and
\* leaves the two matter flags and the chapter counter as they were, so every
\* unit gets after it the type it would have got before it.
C26_SceneBreakKeepsState ==
    [][ReadStep
        => \A t \in {Trimmed(RawUnit)} :
             IsSceneBreakText(t)
             => /\ Last(blocks').type = "scene_break"
                /\ in_front_matter' = in_front_matter
                /\ in_back_matter' = in_back_matter
                /\ chapter_count' = chapter_count
                /\ \A line \in Lines \cup PdfLines :
                       TypeIn(line, in_front_matter', in_back_matter')
                           = TypeIn(line, in_front_matter, in_back_matter)]_vars

\* C26 witness: a scene break stands between two blocks, and the one after
\* it, a text with no marker, pattern or keyword, has the type of the region
\* the block before the scene break was in (front matter, or body after a
\* chapter heading).
C26_Witness ==
    \E i \in 2..(Len(blocks) - 1) :
        /\ blocks[i].type = "scene_break"
        /\ IsPlainText(BlockText(blocks[i + 1]))
        /\ \/ /\ StartsWithFrontMatter(blocks[i - 1].type)
              /\ blocks[i + 1].type = "front_matter_dedication"
           \/ /\ blocks[i - 1].type = "chapter_heading"
              /\ blocks[i + 1].type = "paragraph"

\* The id of the k-th block of a call, written out: b_, zeros, the ordinal.
OrdinalId(k) ==
    <<"b", "_">> \o [i \in 1..(6 - Len(DecimalDigits(k))) |-> "0"] \o DecimalDigits(k)

\* C27: in every state of an extract call, the first on an instance or a
\* later one, the k-th block built so far has the id of ordinal k: blank
\* units take no id, and each call starts again from 1.
C27_ConsecutiveIds ==
    /\ block_counter = Len(blocks)
    /\ \A k \in 1..Len(blocks) : blocks[k].id = OrdinalId(k)

\* C27 witness: a call has built two blocks with the ids b_000001 and
\* b_000002 and has skipped a blank unit.
C27_Witness ==
    /\ Len(blocks) = 2
    /\ units_read = 3
    /\ blocks[1].id = <<"b", "_", "0", "0", "0", "0", "0", "1">>
    /\ blocks[2].id = <<"b", "_", "0", "0", "0", "0", "0", "2">>

\* The place of a warning code in the fixed order of the detectors.
DetectorOrder == <<"DETECTED_IMAGES", "DETECTED_TABLES", "DETECTED_FOOTNOTES",
                   "LOW_CHAPTER_CONFIDENCE", "POEM_LIKE_BLOCKS", "UNICODE_RISK",
                   "EXCESSIVE_WHITESPACE", "CENTERED_TEXT_BLOCKS", "OCR_ARTIFACTS",
                   "FORMATTING_INCONSISTENCY">>

RankOf(code) == CHOOSE r \in 1..Len(DetectorOrder) : DetectorOrder[r] = code

\* C29 (as claimed): on blocks that each have a type and one of text and
\* spans, detect returns a list of warnings, those of the detectors in their
\* fixed order, and does not fail, also when three or more chapter headings
\* have spans.
C29_DetectTotal ==
    detect_out # <<>>
    => /\ ~detect_out.raised
       /\ \A k \in 1..Len(detect_out.value) : \A l \in 1..Len(detect_out.value) :
              k < l => RankOf(detect_out.value[k].code) <= RankOf(detect_out.value[l].code)

\* What holds instead: detect fails with a KeyError exactly when there are
\* three or more chapter headings and one of them has spans; in every other
\* case it returns the warnings in the order of the detectors.
DetectFailsOnSpansHeadings ==
    detect_out # <<>>
    => \A blks \in {BlocksOf(detect_blocks)} :
         \A headings \in {{i \in 1..Len(blks) : blks[i].type = "chapter_heading"}} :
           /\ detect_out.raised
              <=> /\ Cardinality(headings) >= 3
                  /\ \E i \in headings : "text" \notin DOMAIN blks[i]
           /\ detect_out.raised => detect_out.value = KeyError
           /\ ~detect_out.raised
              => \A k \in 1..Len(detect_out.value) : \A l \in 1..Len(detect_out.value) :
                   k < l => RankOf(detect_out.value[k].code)
                                <= RankOf(detect_out.value[l].code)

\* The positions (counted from 1) a result of validate_lineage_integrity
\* reports as mismatches.
ReportedPositions(result) ==
    IF "errors" \in DOMAIN result /\ result.errors.tag = "list"
    THEN {result.errors.items[k].val.parent_index + 1 :
             k \in 1..Len(result.errors.items)}
    ELSE {}

\* verify_artifact_hash returns true of a fetched parent and a declared
\* hash; a declared hash that is no string makes it fail.
VerifiesTrue(fetched, declared_hash) ==
    /\ declared_hash.tag = "str"
    /\ \E r \in {VerifyArtifactHash(fetched, declared_hash.atom)} :
          ~r.raised /\ r.value

\* C30 (as claimed): for declared and fetched lists of the same length,
\* position i is reported as a mismatch exactly when verify_artifact_hash of
\* the fetched parent and the declared hash would not return true, whatever
\* the algorithm prefix of the declared hash.
C30_ValidateAgreesWithVerify ==
    (/\ Validated
     /\ lineage_parents # JNull
     /\ Len(lineage_parents.items) = Len(DeclaredParents))
    => \A i \in 1..Len(DeclaredParents) :
          i \in ReportedPositions(lineage_out.result)
          <=> ~VerifiesTrue(lineage_parents.items[i].val,
                            DictGet(DeclaredParents[i], ARTIFACT_HASH, JNull))

\* What holds instead: the two agree at every position whose declared hash
\* does not begin with the prefix of another supported algorithm.
ValidateAgreesWithVerifyOnSha256 ==
    (/\ Validated
     /\ lineage_parents # JNull
     /\ Len(lineage_parents.items) = Len(DeclaredParents))
    => \A i \in 1..Len(DeclaredParents) :
         \A h \in {DictGet(DeclaredParents[i], ARTIFACT_HASH, JNull)} :
           (h.tag = "str" => /\ SubSeq(h.atom, 1, 5) # SHA1 \o <<":">>
                             /\ SubSeq(h.atom, 1, 4) # MD5 \o <<":">>)
           => (i \in ReportedPositions(lineage_out.result)
               <=> ~VerifiesTrue(lineage_parents.items[i].val, h))

(***************************************************************************)
(* The worker (pronto_worker_1.py): a run of process_service around the    *)
(* extractor, the detector and the builder, between the record store       *)
(* (Airtable), the network, the schema validator and the object storage    *)
(* (R2). Each call of a collaborator either returns or raises.             *)
(***************************************************************************)
\* One iteration of an extract loop, as TxtLine, PdfLine and DocxPara take
\* it, on the locals st of the call; a unit of a PDF is a pair of its page
\* number and its line. Then the rest of the loop.
RECURSIVE ExtractUnits(_, _, _, _)
ExtractUnits(format, units, i, st) ==
    IF i > Len(units) THEN st
    ELSE LET raw == IF format = "docx" THEN ParaText(units[i])
                    ELSE IF format = "pdf" THEN units[i][2]
                    ELSE units[i]
             text == Strip(raw)
             det == DetectBlockType(text, <<>>, st.in_front_matter, st.in_back_matter)
             upd == UpdateState(det.type, det.meta, st.in_front_matter,
                                st.in_back_matter, st.chapter_count)
             n == st.block_counter + 1
             block == IF format = "docx"
                      THEN DocxBlock(n, det.type, text, ExtractSpansFromPara(units[i]),
                                     upd.meta, i - 1)
                      ELSE IF format = "pdf"
                      THEN PdfBlock(n, det.type, text, upd.meta, units[i][1])
                      ELSE TxtBlock(n, det.type, text, upd.meta)
         IN  ExtractUnits(format, units, i + 1,
                 IF text = <<>> THEN st
                 ELSE [in_front_matter |-> upd.in_front_matter,
                       in_back_matter |-> upd.in_back_matter,
                       chapter_count |-> upd.chapter_count,
                       block_counter |-> n,
                       blocks |-> Append(st.blocks, block)])

\* BlockExtractor.extract on a file of an extension and of the units given:
\* the pair of blocks and source metadata, or the ValueError of an
\* unsupported extension. pages is the number of pages of a PDF.
ExtractFile(ext, units, pages) ==
    LET format == FormatOf(ext)
        st == ExtractUnits(format, units, 1,
                  [in_front_matter |-> TRUE, in_back_matter |-> FALSE,
                   chapter_count |-> 0, block_counter |-> 0, blocks |-> <<>>])
    IN  IF format = "error" THEN Raised(ValueError)
        ELSE Returned(
              [blocks |-> st.blocks,
               source_meta |->
                 [original_format |-> format,
                  total_units |-> IF format = "pdf" THEN pages ELSE Len(units),
                  detected_chapters |-> st.chapter_count,
                  has_front_matter |->
                      \E i \in 1..Len(st.blocks) :
                          StartsWithFrontMatter(st.blocks[i].type)
                          \/ st.blocks[i].type = "toc_marker",
                  has_back_matter |->
                      \E i \in 1..Len(st.blocks) :
                          StartsWithBackMatter(st.blocks[i].type)]])

\* Path(url).suffix: what follows the last dot of the last component, the
\* dot included; nothing when the name has no dot, begins with its only dot
\* or ends with it.
PathSuffix(url) ==
    LET slash == LastOf({i \in 1..Len(url) : url[i] = "/"})
        name == SubSeq(url, slash + 1, Len(url))
        dot == LastOf({i \in 1..Len(name) : name[i] = "."})
    IN  IF dot <= 1 \/ dot = Len(name) THEN <<>>
        ELSE SubSeq(name, dot, Len(name))

\* What the clock gives _download_file for the name of the temporary file.
Timestamps == {<<"1", "7", "6", "7", "5", "7", "1", "2", "0", "0", ".", "2", "5">>}

\* _download_file: the path of the temporary file of a URL.
TempPath(url, timestamp) ==
    LET suffix == PathSuffix(url)
        ext == IF suffix = <<>> THEN <<".", "b", "i", "n">> ELSE suffix
    IN  <<"/", "t", "m", "p", "/", "m", "a", "n", "u", "s", "c", "r", "i", "p", "t",
            "_">> \o timestamp \o ext

\* The attachment URLs a Manuscripts record can hold.
ManuscriptUrls == {<<"h", "t", "t", "p", "s", ":", "/", "/", "d", "l", "/", "a", ".", "t", "x",
        "t">>, <<"h", "t", "t", "p", "s", ":", "/", "/", "d", "l", "/", "b", ".", "d", "o",
        "c", "x">>, <<"h", "t", "t", "p", "s", ":", "/", "/", "d", "l", "/", "c", ".", "D",
        "O", "C", "X">>,
                   <<"h", "t", "t", "p", "s", ":", "/", "/", "d", "l", "/", "d", ".", "p", "d",
                           "f">>, <<"h", "t", "t", "p", "s", ":", "/", "/", "d", "l", "/", "e",
                           ".", "r", "t", "f">>, <<"h", "t", "t", "p", "s", ":", "/", "/", "d",
                           "l", "/", "f">>,
                   <<"h", "t", "t", "p", "s", ":", "/", "/", "d", "l", "/", "g", ".", "t", "x",
                           "t", "?", "d", "l", "=", "1">>}

\* What is downloaded from each: the lines of a.txt, the paragraphs of
\* b.docx (three chapter headings with a bold run) and of c.DOCX, the lines
\* of the one page of d.pdf; the others are not read past their extension.
ContentsOf(url) ==
    IF url = <<"h", "t", "t", "p", "s", ":", "/", "/", "d", "l", "/", "a", ".", "t", "x", "t">>
    THEN [units |-> <<<<"C", "h", "a", "p", "t", "e", "r", " ", "5">> \o <<"\n">>, <<" ", "\t",
            "\n">>, <<" ", " ", "H", "i">> \o <<"\n">>>>,
          pages |-> 0]
    ELSE IF url = <<"h", "t", "t", "p", "s", ":", "/", "/", "d", "l", "/", "b", ".", "d", "o",
            "c", "x">>
    THEN [units |-> [i \in 1..3 |->
                        <<Plain(<<"C", "h", ".", " ">>), Run(<<"7">>, FALSE, TRUE, FALSE, <<>>)>>],
          pages |-> 0]
    ELSE IF url = <<"h", "t", "t", "p", "s", ":", "/", "/", "d", "l", "/", "c", ".", "D", "O",
            "C", "X">>
    THEN [units |-> <<<<Run(<<"C", "o", "n", "t", "e", "n", "t", "s">>, TRUE, FALSE, FALSE, <<>>)>>,
                      <<Plain(<<"H", "e", "l", "l", "o", ".">>)>>>>,
          pages |-> 0]
    ELSE IF url = <<"h", "t", "t", "p", "s", ":", "/", "/", "d", "l", "/", "d", ".", "p", "d", "f">>
    THEN [units |-> <<<<1, <<"P", "A", "R", "T", " ", "1">>>>, <<1, <<"-", "-", "-">>>>, <<1,
            <<"H", "e", "l", "l", "o", ".">>>>>>, pages |-> 1]
    ELSE [units |-> <<>>, pages |-> 0]

\* The exceptions of the collaborators, and None.
HTTPError == <<"H", "T", "T", "P", "E", "r", "r", "o", "r">>
ClientError == <<"C", "l", "i", "e", "n", "t", "E", "r", "r", "o", "r">>
None == JNull

\* No attachment URL: the record links no manuscript, or the manuscript has
\* no file.
NoUrl == <<>>

\* What the schema validator behind the wrapper (lib/artifact_validate) can
\* do with an artifact: accept it, reject it with errors, or fail.
ValidatorOutcomes == {"valid", "invalid", "raises"}

\* lib/artifact_validate.validate_artifact, an oracle: its verdict or its
\* failure.
ValidateAgainstSchema(artifact, artifact_type, schema_version, outcome) ==
    IF outcome = "raises" THEN Raised(<<"F", "i", "l", "e", "N", "o", "t", "F", "o", "u", "n",
            "d", "E", "r", "r", "o", "r">>)
    ELSE Returned([valid |-> outcome = "valid",
                   errors |-> IF outcome = "valid" THEN <<>>
                              ELSE <<<<"'", "l", "a", "n", "g", "u", "a", "g", "e", "'", " ",
                                      "i", "s", " ", "a", " ", "r", "e", "q", "u", "i", "r",
                                      "e", "d", " ", "p", "r", "o", "p", "e", "r", "t", "y">>>>])

\* lib/artifact_validator.validate_artifact, the wrapper: the verdict of the
\* validator, and valid=False with the error as text when it fails.
ValidateArtifact(artifact, artifact_type, schema_version, outcome) ==
    LET result == ValidateAgainstSchema(artifact, artifact_type, schema_version, outcome)
    IN  IF result.raised THEN [valid |-> FALSE, errors |-> <<result.value>>]
        ELSE result.value

\* f"services/{service_id}/manuscript.v1.json"
ArtifactKey(service_id) == <<"s", "e", "r", "v", "i", "c", "e", "s",
        "/">> \o service_id \o <<"/", "m", "a", "n", "u", "s", "c", "r", "i", "p", "t", ".",
        "v", "1", ".", "j", "s", "o", "n">>

\* ProntoR2Client.upload_json: the object is stored under the key and its
\* public URL returned, or the call fails and nothing is stored.
UploadJson(key, artifact, ok) ==
    IF ok THEN Returned([public_url |-> <<"h", "t", "t", "p", "s", ":", "/", "/", "a", "r",
            "t", "i", "f", "a", "c", "t", "s", "/">> \o key])
    ELSE Raised(ClientError)

\* The two runs of the worker, started for the same service.
Runs == {1, 2}

\* The service both are started for.
TheService == <<"r", "e", "c", "1">>

\* A run before its first step: the position in process_service, its locals,
\* and what it has done: the Status values it wrote, the steps it began and
\* whether it stored an object.
NewRun ==
    [pc |-> "fetch_service", file_url |-> <<>>, file_path |-> <<>>, blocks |-> <<>>,
     source_meta |-> NoMeta, warnings |-> <<>>, artifact |-> <<>>,
     validation_result |-> <<>>, error |-> <<>>, wrote |-> <<>>, did |-> {},
     uploaded |-> FALSE, result |-> <<>>]

WorkerInit ==
    /\ services_table = [Status |-> "Queued", by |-> 0]
    /\ manuscript_url \in ManuscriptUrls \cup {NoUrl}
    /\ r2_bucket = <<>>
    /\ worker_runs = [r \in Runs |-> NewRun]

\* The run goes on with the locals given.
Goes(r, run) == worker_runs' = [worker_runs EXCEPT ![r] = run]

\* A statement of the try block raised: control is in the except clause.
Except(run, error) == [run EXCEPT !.pc = "fail_service", !.error = error]

\* An update of the Services record by a run: the Status is written.
Update(r, status) == services_table' = [Status |-> status, by |-> r]

\* 1. self.services_table.get(service_id)
FetchService(r, ok) ==
    /\ worker_runs[r].pc = "fetch_service"
    /\ Goes(r, IF ok THEN [worker_runs[r] EXCEPT !.pc = "claim_service"]
               ELSE Except(worker_runs[r], HTTPError))
    /\ UNCHANGED <<services_table, manuscript_url, r2_bucket>>

\* 2. _claim_service: Status is set to Processing, whatever it was.
ClaimService(r, ok) ==
    /\ worker_runs[r].pc = "claim_service"
    /\ IF ok
       THEN /\ Update(r, "Processing")
            /\ Goes(r, [worker_runs[r] EXCEPT !.pc = "get_manuscript_url",
                                       !.wrote = Append(@, "Processing")])
       ELSE /\ Goes(r, Except(worker_runs[r], HTTPError))
            /\ UNCHANGED services_table
    /\ UNCHANGED <<manuscript_url, r2_bucket>>

\* 3. _get_manuscript_url, and the ValueError when it returns None.
GetManuscriptUrl(r, ok) ==
    /\ worker_runs[r].pc = "get_manuscript_url"
    /\ Goes(r, IF ~ok THEN Except(worker_runs[r], HTTPError)
               ELSE IF manuscript_url = NoUrl THEN Except(worker_runs[r], ValueError)
               ELSE [worker_runs[r] EXCEPT !.pc = "download_file", !.file_url = manuscript_url])
    /\ UNCHANGED <<services_table, manuscript_url, r2_bucket>>

\* 4. _download_file
DownloadFile(r, ok, timestamp) ==
    /\ worker_runs[r].pc = "download_file"
    /\ Goes(r, IF ok
               THEN [worker_runs[r] EXCEPT !.pc = "extract", !.did = @ \cup {"download"},
                                    !.file_path = TempPath(worker_runs[r].file_url, timestamp)]
               ELSE Except([worker_runs[r] EXCEPT !.did = @ \cup {"download"}], HTTPError))
    /\ UNCHANGED <<services_table, manuscript_url, r2_bucket>>

\* 5. self.block_extractor.extract(file_path)
ExtractBlocks(r) ==
    /\ worker_runs[r].pc = "extract"
    /\ \E run \in {[worker_runs[r] EXCEPT !.did = @ \cup {"extract"}]} :
       \E content \in {ContentsOf(run.file_url)} :
       \E extracted \in {ExtractFile(PathSuffix(run.file_path), content.units,
                                     content.pages)} :
          Goes(r, IF extracted.raised THEN Except(run, extracted.value)
                  ELSE [run EXCEPT !.pc = "detect",
                                   !.blocks = extracted.value.blocks,
                                   !.source_meta = extracted.value.source_meta])
    /\ UNCHANGED <<services_table, manuscript_url, r2_bucket>>

\* 6. self.warning_detector.detect(blocks, source_meta)
DetectWarnings(r) ==
    /\ worker_runs[r].pc = "detect"
    /\ \E detected \in {Detect(worker_runs[r].blocks, worker_runs[r].source_meta)} :
          Goes(r, IF detected.raised THEN Except(worker_runs[r], detected.value)
                  ELSE [worker_runs[r] EXCEPT !.pc = "build", !.warnings = detected.value])
    /\ UNCHANGED <<services_table, manuscript_url, r2_bucket>>

\* 7. self.artifact_builder.build(...)
BuildArtifact(r, run_id, produced_at) ==
    /\ worker_runs[r].pc = "build"
    /\ Goes(r, [worker_runs[r] EXCEPT !.pc = "validate", !.did = @ \cup {"build"},
                   !.artifact = Build(worker_runs[r].blocks, worker_runs[r].warnings,
                                      worker_runs[r].source_meta, TheService, None,
                                      run_id, produced_at)])
    /\ UNCHANGED <<services_table, manuscript_url, r2_bucket>>

\* 8. validate_artifact(artifact, "manuscript", "1.0"), and the ValueError
\* when the result is not valid.
CheckArtifact(r, outcome) ==
    /\ worker_runs[r].pc = "validate"
    /\ \E result \in {ValidateArtifact(worker_runs[r].artifact, <<"m", "a", "n", "u", "s", "c",
            "r", "i", "p", "t">>, <<"1", ".", "0">>, outcome)} :
       \E run \in {[worker_runs[r] EXCEPT !.did = @ \cup {"validate"},
                                   !.validation_result = result]} :
          Goes(r, IF result.valid THEN [run EXCEPT !.pc = "upload"]
                  ELSE Except(run, ValueError))
    /\ UNCHANGED <<services_table, manuscript_url, r2_bucket>>

\* 9. self.r2_client.upload_json(artifact_key, artifact)
UploadArtifact(r, ok) ==
    /\ worker_runs[r].pc = "upload"
    /\ \E key \in {ArtifactKey(TheService)} :
       \E upload_result \in {UploadJson(key, worker_runs[r].artifact, ok)} :
          IF upload_result.raised
          THEN /\ Goes(r, Except([worker_runs[r] EXCEPT !.did = @ \cup {"upload"}],
                                 upload_result.value))
               /\ UNCHANGED r2_bucket
          ELSE /\ r2_bucket' = [key |-> key, artifact |-> worker_runs[r].artifact, by |-> r]
               /\ Goes(r, [worker_runs[r] EXCEPT !.pc = "complete_service",
                                          !.did = @ \cup {"upload"},
                                          !.uploaded = TRUE])
    /\ UNCHANGED <<services_table, manuscript_url>>

\* 10. _complete_service, and the return of the result.
CompleteService(r, ok) ==
    /\ worker_runs[r].pc = "complete_service"
    /\ IF ok
       THEN /\ Update(r, "Complete")
            /\ Goes(r, [worker_runs[r] EXCEPT !.pc = "returned",
                           !.wrote = Append(@, "Complete"),
                           !.result = [success |-> TRUE, service_id |-> TheService,
                                       artifact_key |-> ArtifactKey(TheService),
                                       warnings_count |-> Len(worker_runs[r].warnings),
                                       blocks_count |-> Len(worker_runs[r].blocks)]])
       ELSE /\ Goes(r, Except(worker_runs[r], HTTPError))
            /\ UNCHANGED services_table
    /\ UNCHANGED <<manuscript_url, r2_bucket>>

\* The except clause: _fail_service, and the return of the failure. When
\* the update fails its exception leaves process_service.
FailService(r, ok) ==
    /\ worker_runs[r].pc = "fail_service"
    /\ IF ok
       THEN /\ Update(r, "Failed")
            /\ Goes(r, [worker_runs[r] EXCEPT !.pc = "returned",
                           !.wrote = Append(@, "Failed"),
                           !.result = [success |-> FALSE, service_id |-> TheService,
                                       error |-> worker_runs[r].error]])
       ELSE /\ Goes(r, [worker_runs[r] EXCEPT !.pc = "raised", !.error = HTTPError])
            /\ UNCHANGED services_table
    /\ UNCHANGED <<manuscript_url, r2_bucket>>

InitWorker ==
    /\ ExtractorInit /\ HashIdle /\ VerifyIdle /\ LineageIdle /\ DetectIdle /\ BuildIdle
    /\ WorkerInit

NextWorker ==
    /\ \E r \in Runs :
          \/ \E ok \in BOOLEAN : FetchService(r, ok)
          \/ \E ok \in BOOLEAN : ClaimService(r, ok)
          \/ \E ok \in BOOLEAN : GetManuscriptUrl(r, ok)
          \/ \E ok \in BOOLEAN : \E timestamp \in Timestamps : DownloadFile(r, ok, timestamp)
          \/ ExtractBlocks(r)
          \/ DetectWarnings(r)
          \/ \E run_id \in RunIds : \E produced_at \in Instants :
                BuildArtifact(r, run_id, produced_at)
          \/ \E outcome \in ValidatorOutcomes : CheckArtifact(r, outcome)
          \/ \E ok \in BOOLEAN : UploadArtifact(r, ok)
          \/ \E ok \in BOOLEAN : CompleteService(r, ok)
          \/ \E ok \in BOOLEAN : FailService(r, ok)
    /\ UNCHANGED <<extractor_vars, hash_vars, verify_vars, lineage_vars, detect_vars,
                   build_vars>>

SpecWorker == InitWorker /\ [][NextWorker]_vars

(***************************************************************************)
(* Properties of the worker.                                               *)
(***************************************************************************)
\* The run has left process_service: with a result, or with an exception.
Ended(r) == worker_runs[r].pc \in {"returned", "raised"}

\* The run has written the Status value.
Wrote(r, status) ==
    \E k \in 1..Len(worker_runs[r].wrote) : worker_runs[r].wrote[k] = status

\* The last Status value the run wrote.
LastWrote(r) ==
    IF worker_runs[r].wrote = <<>> THEN "none" ELSE Last(worker_runs[r].wrote)

\* The run has called extract on a file whose extension is not supported.
ExtractedUnsupported(r) ==
    /\ "extract" \in worker_runs[r].did
    /\ FormatOf(PathSuffix(worker_runs[r].file_path)) = "error"

\* The run has neither blocks nor an artifact, and has validated and stored
\* nothing.
NothingProduced(r) ==
    /\ worker_runs[r].blocks = <<>>
    /\ worker_runs[r].artifact = <<>>
    /\ worker_runs[r].did \cap {"build", "validate", "upload"} = {}
    /\ ~worker_runs[r].uploaded

\* C21 (as claimed): a run whose file has an unsupported extension ends
\* with no block, no artifact built, validated or uploaded, a returned
\* failure value and the service marked Failed.
C21_UnsupportedFormatFails ==
    \A r \in Runs :
        (Ended(r) /\ ExtractedUnsupported(r))
        => /\ NothingProduced(r)
           /\ worker_runs[r].pc = "returned"
           /\ ~worker_runs[r].result.success
           /\ LastWrote(r) = "Failed"

\* What holds of such a run, at every step after the extraction: nothing is
\* produced; and when it returns, it returns a failure after having written
\* Failed.
UnsupportedFormatProducesNothing ==
    \A r \in Runs :
        ExtractedUnsupported(r)
        => /\ NothingProduced(r)
           /\ worker_runs[r].pc \in {"fail_service", "returned", "raised"}
           /\ worker_runs[r].pc = "returned"
              => ~worker_runs[r].result.success /\ LastWrote(r) = "Failed"

\* The steps that work on the manuscript.
WorkSteps == {"download", "extract", "build", "validate", "upload"}

\* C22 (as claimed): the first Status a run writes is Processing, so that
\* Complete and Failed are written after it, and a run that has begun to
\* download, extract, validate or upload has written Processing.
C22_StatusLifecycle ==
    \A r \in Runs :
        /\ worker_runs[r].wrote # <<>> => worker_runs[r].wrote[1] = "Processing"
        /\ worker_runs[r].did \cap WorkSteps # {} => Wrote(r, "Processing")

\* What holds of the lifecycle: Processing is written before any work on
\* the manuscript and before Complete; Failed alone can be written without
\* it.
ProcessingPrecedesWork ==
    \A r \in Runs :
        /\ worker_runs[r].did \cap WorkSteps # {} => worker_runs[r].wrote[1] = "Processing"
        /\ Wrote(r, "Complete") => worker_runs[r].wrote = <<"Processing", "Complete">>
        /\ worker_runs[r].wrote \in {<<>>, <<"Processing">>, <<"Failed">>,
                                     <<"Processing", "Complete">>,
                                     <<"Processing", "Failed">>}

\* C23 (as claimed): a run that has written Processing and has ended has
\* written after it exactly one of Complete and Failed and has returned a
\* result, whose success flag tells whether that was Complete.
C23_EndsInTerminalStatus ==
    \A r \in Runs :
        (Ended(r) /\ Wrote(r, "Processing"))
        => /\ worker_runs[r].pc = "returned"
           /\ Len(worker_runs[r].wrote) = 2
           /\ LastWrote(r) \in {"Complete", "Failed"}
           /\ worker_runs[r].result.success <=> LastWrote(r) = "Complete"

\* What holds of the runs that return: the last Status written is Complete
\* or Failed, and success tells which; a run that ends otherwise has failed
\* to write Failed.
ReturnedRunsAreTerminal ==
    \A r \in Runs :
        /\ worker_runs[r].pc = "returned"
           => /\ LastWrote(r) \in {"Complete", "Failed"}
              /\ worker_runs[r].result.success <=> LastWrote(r) = "Complete"
        /\ worker_runs[r].pc = "raised" => LastWrote(r) \in {"none", "Processing"}

\* C24 (as claimed): of two runs for the same service at most one gets past
\* the claim to extract the manuscript.
C24_ClaimExcludesOtherRun ==
    Cardinality({r \in Runs :
                    Wrote(r, "Processing") /\ "extract" \in worker_runs[r].did}) <= 1

\* C25 (as claimed): an object is stored only of an artifact the validator
\* found valid, and a run whose artifact was found not valid, or whose
\* validator failed, ends without an upload and with Status Failed.
C25_ValidBeforeUpload ==
    /\ r2_bucket # <<>>
       => /\ worker_runs[r2_bucket.by].artifact = r2_bucket.artifact
          /\ worker_runs[r2_bucket.by].validation_result.valid
    /\ \A r \in Runs :
          /\ "upload" \in worker_runs[r].did
             => "validate" \in worker_runs[r].did /\ worker_runs[r].validation_result.valid
          /\ (/\ Ended(r)
              /\ "validate" \in worker_runs[r].did
              /\ ~worker_runs[r].validation_result.valid)
             => /\ "upload" \notin worker_runs[r].did
                /\ LastWrote(r) = "Failed"

\* What holds of validation and upload: the same, but for the last Status,
\* which is Failed when the run returns.
UploadOnlyAfterValid ==
    /\ r2_bucket # <<>>
       => /\ worker_runs[r2_bucket.by].artifact = r2_bucket.artifact
          /\ worker_runs[r2_bucket.by].validation_result.valid
    /\ \A r \in Runs :
          /\ "upload" \in worker_runs[r].did
             => "validate" \in worker_runs[r].did /\ worker_runs[r].validation_result.valid
          /\ ("validate" \in worker_runs[r].did
              /\ ~worker_runs[r].validation_result.valid)
             => /\ "upload" \notin worker_runs[r].did
                /\ worker_runs[r].pc \in {"fail_service", "returned", "raised"}
                /\ worker_runs[r].pc = "returned"
                   => LastWrote(r) = "Failed" /\ ~worker_runs[r].result.success

\* C28 (as claimed): a run that has ended with Status Failed has stored no
\* object; the object under the key of the service is of a run whose last
\* Status is Complete.
C28_FailedRunsUploadNothing ==
    \A r \in Runs :
        (Ended(r) /\ LastWrote(r) = "Failed") => ~worker_runs[r].uploaded

====
